---------------------------- MODULE Spec2Model ----------------------------
(***************************************************************************)
(* A model of parts of openpathsampling / opentis:                         *)
(*   - the PathMoveChange tree (pathmovechange.py) and its application to  *)
(*     a SampleSet,                                                        *)
(*   - DynamicsEngine.generate and stoppers (opentis/dynamics_engine.py),  *)
(*   - the snapshot / trajectory stores exercised by tests/teststorage.py, *)
(*   - Storage.save dispatch (opentis/storage/netcdf_storage.py),          *)
(*   - ObjectJSON.simplify / build and OPSNamed (todict.py, util/todict.py)*)
(* Each subsystem has its own specification; the variables of the other    *)
(* subsystems stay at their initial values.                                *)
(***************************************************************************)
EXTENDS Integers, Sequences, FiniteSets, TLC

VARIABLES
    change,        \* the PathMoveChange tree built by the movers of this step
    sample_set,    \* the running SampleSet: replica-ID -> Sample
    before,        \* the SampleSet the last apply_to was called on
    phase          \* "build" while movers run, "applied" after apply_to

VARIABLES
    initialized,    \* self.initialized
    n_frames_max,   \* the n_frames_max option
    running,        \* self.running: runner -> the last result recorded for it
    trajectory,     \* the trajectory of the current / last generate call
    gen_snapshot,   \* the snapshot argument of the current / last call
    gen_running,    \* the running argument of the current / last call
    pc              \* "idle", "loop" (inside while), "returned", "raised"

VARIABLES
    snapshots,      \* storage.snapshots: the rows of the snapshot table
    snapshot0,      \* storage.stores['snapshot0']: the payload rows
    trajectories,   \* storage.trajectories: the rows of the trajectory table
    last_save       \* the last store operation and what it added

VARIABLES
    _storages,      \* Storage._storages: class or class name -> store
    saved,          \* store -> the objects saved in it
    save_obj,       \* the argument of the last Storage.save call
    save_return     \* what the last Storage.save call returned

VARIABLES
    _name,          \* OPSNamed._name of every named object
    _name_fixed,    \* OPSNamed._name_fixed of every named object
    name_call       \* the last call on a named object and how it ended

VARIABLES
    json_variant,   \* "todict" (todict.py) or "util.todict" (util/todict.py)
    json_in,        \* the value given to simplify, or the document to build
    json_simple,    \* the simplified value
    json_out,       \* what build returned or raised
    json_pc         \* "value", "simplified", "rebuilt"; "document", "built"

VARIABLES
    configurations, \* the Configuration objects, in order of construction
    momentums,      \* the Momentum objects, in order of construction
    snapshot_objs,  \* the Snapshot objects, in order of construction
    snap_call       \* the last constructor or method call and how it ended

VARIABLES
    __features__,   \* cls.__features__ of the decorated snapshot class
    feature_objs,   \* the objects of that class, in order of construction
    feature_call    \* the last call on the class and how it ended

VARIABLES
    volume_in,      \* the operator and operands, or the constructor arguments
    volume_out      \* the volume the last operation returned

VARIABLES
    options         \* the options given to an engine and self.options

VARIABLES
    continuous_segments,    \* state -> the segments analysed so far
    analysis_call           \* the last call on the analysis, the calls made

VARIABLES
    cache,          \* VariableStore.cache: index -> object
    _cached_all,    \* VariableStore._cached_all
    cache_size,     \* cache.size[0]: the capacity, negative for unlimited
    cache_call      \* the last call on the store

VARIABLES
    simulation,         \* OpenMMEngine.simulation: context and system
    _current_snapshot,  \* OpenMMEngine._current_snapshot
    solute_indices,     \* OpenMMEngine.solute_indices
    openmm_call         \* the last call on the engine

VARIABLES
    op_cache,   \* OrderParameter.cache: the SnapshotCache
    op_call     \* the last call on the order parameter

VARIABLES
    network,    \* an MSTISNetwork
    summary     \* the last call of summarize_trajectory

change_vars == <<change, sample_set, before, phase>>
engine_vars == <<initialized, n_frames_max, running, trajectory,
                 gen_snapshot, gen_running, pc>>

store_vars == <<snapshots, snapshot0, trajectories, last_save>>

save_vars == <<_storages, saved, save_obj, save_return>>
named_vars == <<_name, _name_fixed, name_call>>
json_vars == <<json_variant, json_in, json_simple, json_out, json_pc>>

snapshot_vars == <<configurations, momentums, snapshot_objs, snap_call>>

feature_vars == <<__features__, feature_objs, feature_call>>

volume_vars == <<volume_in, volume_out>>

vars == <<change_vars, engine_vars, store_vars, save_vars, named_vars,
          json_vars, snapshot_vars, feature_vars, volume_vars, options,
          continuous_segments, analysis_call,
          cache, _cached_all, cache_size, cache_call,
          simulation, _current_snapshot, solute_indices, openmm_call,
          op_cache, op_call, network, summary>>

\* what the steps of one subsystem leave alone: the other subsystems
Frame(subsystem) ==
    /\ subsystem # "change" => UNCHANGED change_vars
    /\ subsystem # "engine" => UNCHANGED engine_vars
    /\ subsystem # "store" => UNCHANGED store_vars
    /\ subsystem # "save" => UNCHANGED save_vars
    /\ subsystem # "named" => UNCHANGED named_vars
    /\ subsystem # "json" => UNCHANGED json_vars
    /\ subsystem \notin {"snapshot", "openmm"} => UNCHANGED snapshot_vars
    /\ subsystem # "feature" => UNCHANGED feature_vars
    /\ subsystem # "volume" => UNCHANGED volume_vars
    /\ subsystem # "options" => UNCHANGED options
    /\ subsystem # "analysis" =>
           UNCHANGED <<continuous_segments, analysis_call>>
    /\ subsystem # "variable" =>
           UNCHANGED <<cache, _cached_all, cache_size, cache_call>>
    /\ subsystem # "openmm" =>
           UNCHANGED <<simulation, _current_snapshot, solute_indices,
                       openmm_call>>
    /\ subsystem # "orderparameter" => UNCHANGED <<op_cache, op_call>>
    /\ subsystem # "network" => UNCHANGED network
    /\ subsystem # "summary" => UNCHANGED summary

(***************************************************************************)
(* Bounds of the PathMoveChange model.                                     *)
(***************************************************************************)
NumReplicas == 2
MaxLeaves == 3
MaxDepth == 2

Replicas == 1..NumReplicas

(***************************************************************************)
(* Sample and SampleSet.  A Sample is an object; every mover creates new   *)
(* Sample objects, so a sample is identified by its creation number (id).  *)
(* id 0 is the sample a replica holds before the step.                     *)
(***************************************************************************)
Sample(r, i) == [replica |-> r, id |-> i]

\* SampleSet(samples): replica -> Sample mapping, last write per replica wins
\* SampleSet([]): no replica holds a sample
EmptySampleSet == [r \in Replicas |-> [replica |-> 0, id |-> 0]]
InitialSampleSet == [r \in Replicas |-> Sample(r, 0)]

RECURSIVE apply_samples(_, _)
apply_samples(sset, samples) ==
    IF samples = <<>> THEN sset
    ELSE apply_samples([sset EXCEPT ![Head(samples).replica] = Head(samples)],
                       Tail(samples))

(***************************************************************************)
(* PathMoveChange nodes.  _accepted is <<>> for None, <<b>> for a value.   *)
(***************************************************************************)
NoChange == [kind |-> "None", _accepted |-> <<>>, _local_samples |-> <<>>,
             subchanges |-> <<>>]

None == <<>>

PathMoveChange(kind, acc, local, subs) ==
    [kind |-> kind, _accepted |-> acc, _local_samples |-> local,
     subchanges |-> subs]

SamplePathMoveChange(samples, acc) ==
    PathMoveChange("SamplePathMoveChange", <<acc>>, samples, <<>>)

CollapsedMovePath(samples) ==
    PathMoveChange("CollapsedMovePath", <<TRUE>>, samples, <<>>)

RandomChoicePathMoveChange(subchange) ==
    PathMoveChange("RandomChoicePathMoveChange", <<TRUE>>, <<>>, <<subchange>>)

SequentialKinds == {"SequentialPathMoveChange",
                    "PartialAcceptanceSequentialMovePath",
                    "ConditionalSequentialMovePath"}

SequentialPathMoveChange(kind, subchanges) ==
    PathMoveChange(kind, None, <<>>, subchanges)

RECURSIVE accepted(_), _get_accepted(_), ConditionalAcceptedLoop(_, _)
RECURSIVE samples(_), _get_samples(_)
RECURSIVE SequentialSamplesLoop(_, _, _), PartialSamplesLoop(_, _, _)
RECURSIVE ConditionalSamplesLoop(_, _, _)
RECURSIVE apply_to(_, _)
RECURSIVE SequentialApplyLoop(_, _, _), PartialApplyLoop(_, _, _)
RECURSIVE ConditionalApplyLoop(_, _, _, _)
RECURSIVE all_samples(_), AllSamplesLoop(_, _, _)
RECURSIVE Depth(_), NumLeaves(_)

\* for subchange in self.subchanges: if not subchange.accepted: return False
ConditionalAcceptedLoop(subs, i) ==
    IF i > Len(subs) THEN TRUE
    ELSE IF ~accepted(subs[i]) THEN FALSE
    ELSE ConditionalAcceptedLoop(subs, i + 1)

_get_accepted(c) ==
    IF c.kind = "ConditionalSequentialMovePath"
    THEN ConditionalAcceptedLoop(c.subchanges, 1)
    ELSE TRUE

accepted(c) ==
    IF c._accepted = None THEN _get_accepted(c) ELSE c._accepted[1]

\* samples = samples + subchange.samples, for every subchange
SequentialSamplesLoop(subs, i, acc) ==
    IF i > Len(subs) THEN acc
    ELSE SequentialSamplesLoop(subs, i + 1, acc \o samples(subs[i]))

\* a break that is skipped over instead
PartialSamplesLoop_NoBreak(subs, i, changes) ==
    IF i > Len(subs) THEN changes
    ELSE IF accepted(subs[i])
         THEN PartialSamplesLoop(subs, i + 1, changes \o samples(subs[i]))
         ELSE PartialSamplesLoop(subs, i + 1, changes)

\* extend while the subchange is accepted, break at the first rejected one
PartialSamplesLoop(subs, i, changes) ==
    IF i > Len(subs) THEN changes
    ELSE IF accepted(subs[i])
         THEN PartialSamplesLoop(subs, i + 1, changes \o samples(subs[i]))
         ELSE changes

\* extend while the subchange is accepted, return [] at the first rejected one
ConditionalSamplesLoop(subs, i, changes) ==
    IF i > Len(subs) THEN changes
    ELSE IF accepted(subs[i])
         THEN ConditionalSamplesLoop(subs, i + 1, changes \o samples(subs[i]))
         ELSE <<>>

_get_samples(c) ==
    CASE c.kind = "RandomChoicePathMoveChange" ->
            samples(c.subchanges[1])
      [] c.kind = "SequentialPathMoveChange" ->
            SequentialSamplesLoop(c.subchanges, 1, <<>>)
      [] c.kind = "PartialAcceptanceSequentialMovePath" ->
            PartialSamplesLoop(c.subchanges, 1, <<>>)
      [] c.kind = "ConditionalSequentialMovePath" ->
            ConditionalSamplesLoop(c.subchanges, 1, <<>>)
      [] c.kind = "PathSimulatorPathMoveChange" ->
            samples(c.subchanges[1])
      [] c.kind = "KeepLastSamplePathMoveChange" ->
            LET s == samples(c.subchanges[1])
            IN  IF Len(s) > 1 THEN <<s[Len(s)]>> ELSE s
      [] OTHER ->
            IF accepted(c) THEN c._local_samples ELSE <<>>

\* the _samples cache holds _get_samples() of an immutable tree
samples(c) == _get_samples(c)

AllSamplesLoop(subs, i, acc) ==
    IF i > Len(subs) THEN acc
    ELSE AllSamplesLoop(subs, i + 1, acc \o all_samples(subs[i]))

all_samples(c) ==
    CASE c.kind = "RandomChoicePathMoveChange" ->
            all_samples(c.subchanges[1])
      [] c.kind \in SequentialKinds ->
            AllSamplesLoop(c.subchanges, 1, <<>>)
      [] OTHER -> c._local_samples

SequentialApplyLoop(subs, i, sset) ==
    IF i > Len(subs) THEN sset
    ELSE SequentialApplyLoop(subs, i + 1, apply_to(subs[i], sset))

PartialApplyLoop(subs, i, sset) ==
    IF i > Len(subs) THEN sset
    ELSE IF accepted(subs[i])
         THEN PartialApplyLoop(subs, i + 1, apply_to(subs[i], sset))
         ELSE sset

ConditionalApplyLoop(subs, i, sset, other) ==
    IF i > Len(subs) THEN sset
    ELSE IF accepted(subs[i])
         THEN ConditionalApplyLoop(subs, i + 1, apply_to(subs[i], sset), other)
         ELSE other

apply_to(c, other) ==
    CASE c.kind \in {"SamplePathMoveChange", "CollapsedMovePath"} ->
            apply_samples(other, c._local_samples)
      [] c.kind = "RandomChoicePathMoveChange" ->
            apply_to(c.subchanges[1], other)
      [] c.kind = "SequentialPathMoveChange" ->
            SequentialApplyLoop(c.subchanges, 1, other)
      [] c.kind = "PartialAcceptanceSequentialMovePath" ->
            PartialApplyLoop(c.subchanges, 1, other)
      [] c.kind = "ConditionalSequentialMovePath" ->
            ConditionalApplyLoop(c.subchanges, 1, other, other)
      [] OTHER ->
            apply_samples(other, samples(c))

\* [samp for samp in self.samples if samp in SampleSet([]).apply_samples(self.samples)]
collapsed_samples(c) ==
    IF c.kind = "CollapsedMovePath" THEN c._local_samples
    ELSE LET s == apply_samples(EmptySampleSet, samples(c))
         IN  SelectSeq(samples(c),
                       LAMBDA samp : \E r \in Replicas : s[r] = samp)

closed(c) == CollapsedMovePath(collapsed_samples(c))

(***************************************************************************)
(* The wrappers around one sub-change.                                     *)
(***************************************************************************)
MaxRecursion == 3

FilterSamplesPathMoveChange(subchange, selected_samples, use_all_samples) ==
    [kind |-> "FilterSamplesPathMoveChange", _accepted |-> <<TRUE>>,
     _local_samples |-> <<>>, subchanges |-> <<subchange>>,
     selected_samples |-> selected_samples,
     use_all_samples |-> use_all_samples]

KeepLastSamplePathMoveChange(subchange) ==
    PathMoveChange("KeepLastSamplePathMoveChange", <<TRUE>>, <<>>,
                   <<subchange>>)

\* FilterSamplesPathMoveChange._get_samples with depth frames of itself on
\* the stack.  the_samples = self.samples reads the property of the filter
\* itself, whose _samples is still None, so it calls _get_samples again; the
\* interpreter ends the recursion at its limit with a RuntimeError.
\* self.all_samples is the base property: self._local_samples.
RECURSIVE FilterSamples_get_samples(_, _)
FilterSamples_get_samples(self, depth) ==
    IF depth > MaxRecursion
    THEN [raised |-> "RuntimeError", samples |-> <<>>]
    ELSE LET the_samples ==
                 IF self.use_all_samples
                 THEN [raised |-> "", samples |-> self._local_samples]
                 ELSE FilterSamples_get_samples(self, depth + 1)
         IN  IF the_samples.raised # "" THEN the_samples
             ELSE IF self.selected_samples # <<>>
                     /\ Len(the_samples.samples) = 0
             THEN [raised |-> "ZeroDivisionError", samples |-> <<>>]
             ELSE [raised |-> "",
                   samples |-> [i \in 1..Len(self.selected_samples) |->
                                   self.selected_samples[i]
                                       % Len(the_samples.samples)]]

PathSimulatorPathMoveChange(subchange) ==
    PathMoveChange("PathSimulatorPathMoveChange", <<TRUE>>, <<>>,
                   <<subchange>>)

\* self.reduced(selected_samples, use_all_samples) for a list
\* selected_samples (None returns self.closed).  The comprehension reads
\* self.collapsed_samples only while it walks a non-empty sample_set.
reduced(self, selected_samples, use_all_samples) ==
    LET own == IF self.kind = "FilterSamplesPathMoveChange"
               THEN FilterSamples_get_samples(self, 0)
               ELSE [raised |-> "", samples |-> samples(self)]
        the_samples == IF use_all_samples THEN all_samples(self)
                       ELSE own.samples
        n == Len(the_samples)
    IN  IF ~use_all_samples /\ own.raised # ""
        THEN [raised |-> own.raised, obj |-> NoChange]
        ELSE IF n = 0 /\ \E i \in 1..Len(selected_samples) :
                             selected_samples[i] < 0
        THEN [raised |-> "ZeroDivisionError", obj |-> NoChange]
        ELSE IF n > 0 /\ own.raised # ""
        THEN [raised |-> own.raised, obj |-> NoChange]
        ELSE LET selected == {IF selected_samples[i] < 0
                              THEN selected_samples[i] % n
                              ELSE selected_samples[i] :
                                  i \in 1..Len(selected_samples)}
                 kept == SelectSeq([idx \in 1..n |-> idx - 1],
                             LAMBDA idx :
                                 \/ idx \in selected
                                 \/ \E k \in 1..Len(collapsed_samples(self)) :
                                        collapsed_samples(self)[k]
                                            = the_samples[idx + 1])
             IN  [raised |-> "",
                  obj |-> CollapsedMovePath(
                              [k \in 1..Len(kept) |->
                                  the_samples[kept[k] + 1]])]

(***************************************************************************)
(* Traversals of a change tree.  A node object is identified by its        *)
(* position: the indices into subchanges that lead to it from the root.    *)
(* The function applied to a node returns the node.                        *)
(***************************************************************************)
RECURSIVE __iter__(_, _), traverse_dfs_level(_, _, _)

\* yield self, then every change that iterating each subchange yields
__iter__(self, node) ==
    LET RECURSIVE loop(_)
        loop(i) ==
            IF i > Len(self.subchanges) THEN <<>>
            ELSE __iter__(self.subchanges[i], Append(node, i)) \o loop(i + 1)
    IN  <<node>> \o loop(1)

\* every change that iterating each subchange yields, then yield self
__reversed__(self, node) ==
    LET RECURSIVE loop(_)
        loop(i) ==
            IF i > Len(self.subchanges) THEN <<>>
            ELSE __iter__(self.subchanges[i], Append(node, i)) \o loop(i + 1)
    IN  loop(1) \o <<node>>

traverse_dfs(self) == __reversed__(self, <<>>)

traverse_bfs(self) == __iter__(self, <<>>)

\* extend with mp.traverse_dfs_level(fnc, level + 1), then append self
traverse_dfs_level(self, level, node) ==
    LET RECURSIVE loop(_)
        loop(i) ==
            IF i > Len(self.subchanges) THEN <<>>
            ELSE traverse_dfs_level(self.subchanges[i], level + 1,
                                    Append(node, i)) \o loop(i + 1)
    IN  loop(1) \o <<<<level, node>>>>

\* append self, then extend with mp.traverse_dfs_level(fnc, level + 1)
traverse_bfs_level(self, level, node) ==
    LET RECURSIVE loop(_)
        loop(i) ==
            IF i > Len(self.subchanges) THEN <<>>
            ELSE traverse_dfs_level(self.subchanges[i], level + 1,
                                    Append(node, i)) \o loop(i + 1)
    IN  <<<<level, node>>>> \o loop(1)

(***************************************************************************)
(* Size of a tree (used to bound the model only).                          *)
(***************************************************************************)
RECURSIVE SumLeaves(_, _)
Depth(c) ==
    IF c.subchanges = <<>> THEN 0
    ELSE LET depths == {Depth(c.subchanges[i]) : i \in 1..Len(c.subchanges)}
         IN  1 + CHOOSE d \in depths : \A e \in depths : e <= d

SumLeaves(subs, i) ==
    IF i > Len(subs) THEN 0 ELSE NumLeaves(subs[i]) + SumLeaves(subs, i + 1)

NumLeaves(c) == IF c.subchanges = <<>> THEN 1 ELSE SumLeaves(c.subchanges, 1)

\* the leaves a composite mover adds after its first sub-mover: each is a
\* SamplePathMoveChange holding one new Sample
LeafLists(n) == UNION {[1..k -> Replicas \X BOOLEAN] : k \in 0..n}

NewLeaves(specs, first_id) ==
    [k \in 1..Len(specs) |->
        SamplePathMoveChange(<<Sample(specs[k][1], first_id + k - 1)>>,
                             specs[k][2])]

(***************************************************************************)
(* The steps of one Monte Carlo step.                                      *)
(***************************************************************************)
ChangeInit ==
    /\ change = NoChange
    /\ sample_set = InitialSampleSet
    /\ before = sample_set
    /\ phase = "build"

\* a shooting-like mover returns a leaf with one new sample
RunSampleMover(r, acc) ==
    /\ phase = "build"
    /\ change = NoChange
    /\ change' = SamplePathMoveChange(<<Sample(r, 1)>>, acc)
    /\ UNCHANGED <<sample_set, before, phase>>
    /\ Frame("change")

\* a sequential-family mover wraps the change of its first sub-mover and
\* those of the sub-movers that ran after it
RunSequentialMover ==
    /\ phase = "build"
    /\ change # NoChange
    /\ Depth(change) < MaxDepth
    /\ LET n == NumLeaves(change)
       IN  \E kind \in SequentialKinds, specs \in LeafLists(MaxLeaves - n) :
              change' = SequentialPathMoveChange(kind,
                            <<change>> \o NewLeaves(specs, n + 1))
    /\ UNCHANGED <<sample_set, before, phase>>
    /\ Frame("change")

RunRandomChoiceMover ==
    /\ phase = "build"
    /\ change # NoChange
    /\ Depth(change) < MaxDepth
    /\ change' = RandomChoicePathMoveChange(change)
    /\ UNCHANGED <<sample_set, before, phase>>
    /\ Frame("change")

\* sample_set = change.apply_to(sample_set)
ApplyChange ==
    /\ phase = "build"
    /\ change # NoChange
    /\ before' = sample_set
    /\ sample_set' = apply_to(change, sample_set)
    /\ phase' = "applied"
    /\ UNCHANGED change
    /\ Frame("change")

\* a new simulation starts from the initial SampleSet
NextStep ==
    /\ phase = "applied"
    /\ change' = NoChange
    /\ sample_set' = InitialSampleSet
    /\ before' = InitialSampleSet
    /\ phase' = "build"
    /\ Frame("change")

ChangeNext ==
    \/ \E r \in Replicas, acc \in BOOLEAN : RunSampleMover(r, acc)
    \/ RunSequentialMover
    \/ RunRandomChoiceMover
    \/ ApplyChange
    \/ NextStep

(***************************************************************************)
(* DynamicsEngine (opentis/dynamics_engine.py): generate and stoppers.     *)
(***************************************************************************)
\* Bounds of the engine model
MaxFramesMax == 3
MaxRunnerStop == 3
NumSnapshots == 2

\* A runner is a callable of the trajectory-so-far.  Runner k keeps running
\* while the trajectory has fewer than k frames; runner 0 is true_func.
Runners == {[kind |-> "runner", stop |-> k] : k \in 0..MaxRunnerStop}

CallRunner(runner, traj) == runner.stop = 0 \/ Len(traj) < runner.stop

\* LengthEnsemble(slice(0, n_frames_max + 1))
LengthEnsemble(stop) == [kind |-> "LengthEnsemble", stop |-> stop]
max_length_stopper == LengthEnsemble(n_frames_max + 1)

\* LengthEnsemble.can_append for a slice: one more frame still fits
can_append(ens, traj) == Len(traj) < ens.stop - 1

\* the snapshot the integrator produces for frame number `frame`
generate_next_frame(frame) == 0 - frame

DictSet(dict, key, value) ==
    [k \in DOMAIN dict \cup {key} |-> IF k = key THEN value ELSE dict[k]]

\* for runner in running: self.running[runner] = runner(trajectory)
RECURSIVE RecordRunners(_, _, _)
RecordRunners(dict, todo, traj) ==
    IF todo = {} THEN dict
    ELSE LET runner == CHOOSE r \in todo : TRUE
         IN  RecordRunners(DictSet(dict, runner, CallRunner(runner, traj)),
                           todo \ {runner}, traj)

stoppers == {runner \in DOMAIN running : ~running[runner]}

EngineInit ==
    /\ initialized = FALSE
    /\ n_frames_max \in 0..MaxFramesMax
    /\ running = <<>>
    /\ trajectory = <<>>
    /\ gen_snapshot = 0
    /\ gen_running = {}
    /\ pc = "idle"

\* the subclass finishes its setup
InitializeEngine ==
    /\ pc = "idle"
    /\ ~initialized
    /\ initialized' = TRUE
    /\ UNCHANGED <<n_frames_max, running, trajectory, gen_snapshot,
                   gen_running, pc>>
    /\ Frame("engine")

\* generate(snapshot, running) up to the while loop
Generate(snapshot, runners) ==
    /\ pc # "loop"
    /\ gen_snapshot' = snapshot
    /\ gen_running' = runners
    /\ IF initialized
       THEN /\ trajectory' = <<snapshot>>
            /\ pc' = "loop"
       ELSE /\ trajectory' = <<>>
            /\ pc' = "raised"
    /\ UNCHANGED <<initialized, n_frames_max, running>>
    /\ Frame("engine")

\* one pass of the while loop; the loop ends when stop is set
GenerateFrame ==
    /\ pc = "loop"
    /\ LET frame == Len(trajectory)
           traj == Append(trajectory, generate_next_frame(frame))
           stop == \/ \E runner \in gen_running : ~CallRunner(runner, traj)
                   \/ ~can_append(max_length_stopper, traj)
       IN  /\ trajectory' = traj
           /\ running' = RecordRunners(running, gen_running, traj)
           /\ pc' = IF stop THEN "returned" ELSE "loop"
    /\ UNCHANGED <<initialized, n_frames_max, gen_snapshot, gen_running>>
    /\ Frame("engine")

EngineNext ==
    \/ InitializeEngine
    \/ \E snapshot \in 1..NumSnapshots, runners \in SUBSET Runners :
            Generate(snapshot, runners)
    \/ GenerateFrame


(***************************************************************************)
(* The snapshot and trajectory stores, as tests/teststorage.py exercises   *)
(* them (test_store_snapshots, test_reverse_bug).                          *)
(***************************************************************************)
\* Bounds of the store model
NumFrames == 2
NumReversedCopies == 2
MaxTrajectoryRows == 2

\* A snapshot is a frame (its configuration / momentum payload) and the
\* reversed flag; s.reversed is its twin.
Snapshot(frame, rev) == <<frame, rev>>
reversed(s) == Snapshot(s[1], ~s[2])

\* Trajectory objects: the slices traj[first:] of one trajectory and the
\* objects that separate evaluations of traj.reversed return.
Trajectory(first, rev, copy) == [first |-> first, rev |-> rev, copy |-> copy]
Trajectories ==
    {Trajectory(first, FALSE, 1) : first \in 1..NumFrames}
    \cup {Trajectory(1, TRUE, copy) : copy \in 1..NumReversedCopies}

\* list(trajectory)
Frames(t) ==
    [i \in 1..(NumFrames - t.first + 1) |->
        IF t.rev THEN Snapshot(NumFrames - i + 1, TRUE)
                 ELSE Snapshot(t.first + i - 1, FALSE)]

\* trajectory.reversed, as a list of snapshots
ReversedFrames(t) ==
    [i \in 1..Len(Frames(t)) |-> reversed(Frames(t)[Len(Frames(t)) - i + 1])]

InTable(rows, obj) == \E i \in 1..Len(rows) : rows[i] = obj

\* storage.idx(snapshot): the row of a snapshot, -1 when it has none
idx(snapshot) ==
    IF InTable(snapshots, snapshot)
    THEN (CHOOSE i \in 1..Len(snapshots) : snapshots[i] = snapshot) - 1
    ELSE 0 - 1

\* the twin is not given its row with the snapshot
RegisterSnapshot_NoTwin(rows, s) ==
    IF InTable(rows, s) THEN rows ELSE Append(rows, s)

\* a snapshot the table does not know gets a row, its twin the next one
RegisterSnapshot(rows, s) ==
    IF InTable(rows, s) THEN rows ELSE rows \o <<s, reversed(s)>>

\* the payload of a frame is written once, for the twins together
WritePayload(payload, s) ==
    IF InTable(payload, s[1]) THEN payload ELSE Append(payload, s[1])

RECURSIVE RegisterAll(_, _), WriteAll(_, _)
RegisterAll(rows, todo) ==
    IF todo = <<>> THEN rows
    ELSE RegisterAll(RegisterSnapshot(rows, Head(todo)), Tail(todo))

WriteAll(payload, todo) ==
    IF todo = <<>> THEN payload
    ELSE WriteAll(WritePayload(payload, Head(todo)), Tail(todo))

\* what last_save records of an operation
SaveRecord(op, s, t, stored, rev_stored) ==
    [op |-> op, snapshot |-> s, trajectory |-> t,
     stored |-> stored, reverse_stored |-> rev_stored,
     added |-> <<Len(trajectories') - Len(trajectories),
                 Len(snapshots') - Len(snapshots),
                 Len(snapshot0') - Len(snapshot0)>>]

StoreInit ==
    /\ snapshots = <<>>
    /\ snapshot0 = <<>>
    /\ trajectories = <<>>
    /\ last_save = [op |-> "none", snapshot |-> Snapshot(0, FALSE),
                    trajectory |-> Trajectory(0, FALSE, 0), stored |-> FALSE,
                    reverse_stored |-> FALSE, added |-> <<0, 0, 0>>]

\* storage.snapshots.save(s)
SaveSnapshot(s) ==
    /\ snapshots' = RegisterSnapshot(snapshots, s)
    /\ snapshot0' = WritePayload(snapshot0, s)
    /\ UNCHANGED trajectories
    /\ last_save' = SaveRecord("snapshots.save", s, Trajectory(0, FALSE, 0),
                               InTable(snapshot0, s[1]),
                               InTable(snapshots, s))
    /\ Frame("store")

\* a stored trajectory whose reverse t is
ReverseStored(t) ==
    \E i \in 1..Len(trajectories) : Frames(t) = ReversedFrames(trajectories[i])

\* storage.trajectories.save(t): an object the table holds is left alone
SaveTrajectory(t) ==
    /\ InTable(trajectories, t) \/ Len(trajectories) < MaxTrajectoryRows
    /\ IF InTable(trajectories, t)
       THEN UNCHANGED <<snapshots, snapshot0, trajectories>>
       ELSE /\ snapshots' = RegisterAll(snapshots, Frames(t))
            /\ snapshot0' = WriteAll(snapshot0, Frames(t))
            /\ trajectories' = Append(trajectories, t)
    /\ last_save' = SaveRecord("trajectories.save", Snapshot(0, FALSE), t,
                               InTable(trajectories, t), ReverseStored(t))
    /\ Frame("store")

\* storage.trajectories.mention(t): rows without payload
MentionTrajectory(t) ==
    /\ InTable(trajectories, t) \/ Len(trajectories) < MaxTrajectoryRows
    /\ IF InTable(trajectories, t)
       THEN UNCHANGED <<snapshots, trajectories>>
       ELSE /\ snapshots' = RegisterAll(snapshots, Frames(t))
            /\ trajectories' = Append(trajectories, t)
    /\ UNCHANGED snapshot0
    /\ last_save' = SaveRecord("trajectories.mention", Snapshot(0, FALSE), t,
                               InTable(trajectories, t), ReverseStored(t))
    /\ Frame("store")

StoreNext ==
    \/ \E s \in (1..NumFrames) \X BOOLEAN : SaveSnapshot(s)
    \/ \E t \in Trajectories : SaveTrajectory(t)
    \/ \E t \in Trajectories : MentionTrajectory(t)

(***************************************************************************)
(* Storage.save (opentis/storage/netcdf_storage.py): dispatch on the type  *)
(* of the object.                                                          *)
(***************************************************************************)
\* Bound of the dispatch model: the objects of each class
NumInstances == 1

\* class -> its direct base class.  Ensemble and PathMover have a store of
\* their own; Topology has none.
Superclass ==
    [c \in {"Ensemble", "WrappedEnsemble",
            "BackwardPrependedTrajectoryEnsemble", "PathMover",
            "RandomChoiceMover", "Topology"} |->
        CASE c = "WrappedEnsemble" -> "Ensemble"
          [] c = "BackwardPrependedTrajectoryEnsemble" -> "WrappedEnsemble"
          [] c = "RandomChoiceMover" -> "PathMover"
          [] OTHER -> "object"]

RegisteredTypes == {"Ensemble", "PathMover"}

RECURSIVE issubclass(_, _)
issubclass(c, ty) ==
    \/ c = ty
    \/ c \in DOMAIN Superclass /\ issubclass(Superclass[c], ty)

\* ObjectStorage.register(): the store under its class, <<"class", c>>, and
\* under its class name, <<"str", c>>
RegisteredStorages ==
    [key \in {"class", "str"} \X RegisteredTypes |-> key[2]]

SaveInit ==
    /\ _storages = RegisteredStorages
    /\ saved = [store \in RegisteredTypes |-> {}]
    /\ save_obj = <<"object", 0>>
    /\ save_return = ""

\* Storage.save(obj) for an object that is neither a list nor a tuple (for
\* those save is called on every part).  The for loop takes the keys in the
\* order of the dict, which is any order.
Storage_save(obj) ==
    /\ save_obj' = obj
    /\ IF <<"class", obj[1]>> \in DOMAIN _storages
       THEN /\ saved' = [saved EXCEPT
                            ![_storages[<<"class", obj[1]>>]] = @ \cup {obj}]
            /\ save_return' = obj[1]
            /\ UNCHANGED _storages
       ELSE IF \E ty \in DOMAIN _storages :
                    ty[1] # "str" /\ issubclass(obj[1], ty[2])
       THEN \E ty \in DOMAIN _storages :
                /\ ty[1] # "str"
                /\ issubclass(obj[1], ty[2])
                /\ _storages' = DictSet(_storages, <<"class", obj[1]>>,
                                        _storages[ty])
                /\ saved' = [saved EXCEPT ![_storages[ty]] = @ \cup {obj}]
                /\ save_return' = ty[2]
       ELSE /\ save_return' = ""
            /\ UNCHANGED <<_storages, saved>>
    /\ Frame("save")

SaveNext ==
    \E c \in DOMAIN Superclass, i \in 1..NumInstances : Storage_save(<<c, i>>)

(***************************************************************************)
(* OPSNamed (todict.py): the name of an object and its fixing.             *)
(***************************************************************************)
\* Bound of the naming model
NumNamedObjects == 2


\* '[' + self.__class__.__name__ + ']'
default_name(obj) == "[FullVolume]"

\* the name property
name(obj) == IF _name[obj] = "" THEN default_name(obj) ELSE _name[obj]

NameCall(op, obj, raised) ==
    [op |-> op, obj |-> obj, raised |-> raised,
     name_before |-> name(obj), fixed_before |-> _name_fixed[obj]]

NamedInit ==
    /\ _name = [obj \in 1..NumNamedObjects |-> ""]
    /\ _name_fixed = [obj \in 1..NumNamedObjects |-> FALSE]
    /\ name_call = [op |-> "none", obj |-> 1, raised |-> FALSE,
                    name_before |-> "[FullVolume]", fixed_before |-> FALSE]

fix_name(obj) ==
    /\ _name_fixed' = [_name_fixed EXCEPT ![obj] = TRUE]
    /\ name_call' = NameCall("fix_name", obj, FALSE)
    /\ UNCHANGED _name
    /\ Frame("named")

\* obj.name = new_name
name_setter(obj, new_name) ==
    /\ IF _name_fixed[obj]
       THEN /\ name_call' = NameCall("name.setter", obj, TRUE)
            /\ UNCHANGED _name
       ELSE /\ name_call' = NameCall("name.setter", obj, FALSE)
            /\ _name' = [_name EXCEPT ![obj] = new_name]
    /\ UNCHANGED _name_fixed
    /\ Frame("named")

\* obj.named(new_name)
named(obj, new_name) ==
    /\ _name' = [_name EXCEPT ![obj] = new_name]
    /\ name_call' = NameCall("named", obj, FALSE)
    /\ UNCHANGED _name_fixed
    /\ Frame("named")

NamedNext ==
    \/ \E obj \in 1..NumNamedObjects : fix_name(obj)
    \/ \E obj \in 1..NumNamedObjects, new_name \in {"", "a", "b"} :
            name_setter(obj, new_name)
    \/ \E obj \in 1..NumNamedObjects, new_name \in {"", "a", "b"} :
            named(obj, new_name)

(***************************************************************************)
(* ObjectJSON (todict.py and util/todict.py): simplify and build.          *)
(* A Python value is <<tag, payload>>: "int", "str", "none", "list" and    *)
(* "tuple" (a sequence of values), "slice" (<<start, stop, step>>), "dict" *)
(* (a set of <<key, value>> pairs), "obj" (<<class name, to_dict()>>).     *)
(* An exception is the result <<"error", name>>.                           *)
(***************************************************************************)
\* Bound of the serialization model: the nesting depth of the inputs
JsonDepth == 2

\* ObjectJSON.class_list: the names of the creatable classes
class_list == {"A"}

Has(obj, key) == \E p \in obj[2] : p[1] = <<"str", key>>
Get(obj, key) == (CHOOSE p \in obj[2] : p[1] = <<"str", key>>)[2]

\* obj.iteritems(), in the order the dict happens to have
RECURSIVE iteritems(_)
iteritems(pairs) ==
    IF pairs = {} THEN <<>>
    ELSE LET p == CHOOSE q \in pairs : TRUE
         IN  <<p>> \o iteritems(pairs \ {p})

RECURSIVE simplify(_, _)
simplify(variant, obj) ==
    LET each(seq) == [i \in 1..Len(seq) |-> simplify(variant, seq[i])]
        items == iteritems(obj[2])
    IN  CASE obj[1] = "obj" ->
                <<"dict", {<< <<"str", "_cls">>, <<"str", obj[2][1]>> >>,
                           << <<"str", "_dict">>,
                              simplify(variant, obj[2][2]) >>}>>
          [] obj[1] = "list" -> <<"list", each(obj[2])>>
          [] obj[1] = "tuple" ->
                IF variant = "todict"
                THEN <<"dict", {<< <<"str", "_tuple">>,
                                   <<"list", each(obj[2])>> >>}>>
                ELSE <<"tuple", each(obj[2])>>
          [] obj[1] = "dict" ->
                IF variant # "todict"
                THEN <<"dict", {<<p[1], simplify(variant, p[2])>> :
                                  p \in {q \in obj[2] : q[1][1] = "str"}}>>
                ELSE IF \A p \in obj[2] : p[1][1] \in {"str", "int"}
                THEN <<"dict", {<<p[1], simplify(variant, p[2])>> :
                                  p \in obj[2]}>>
                ELSE <<"dict", {<< <<"str", "_dict">>,
                        <<"list", [i \in 1..Len(items) |->
                            simplify(variant, <<"tuple", items[i]>>)]>> >>}>>
          [] obj[1] = "slice" ->
                <<"dict", {<< <<"str", "_slice">>, <<"list", obj[2]>> >>}>>
          [] OTHER -> obj

\* what a call returns, or raises, and the classes it called from_dict on
Return(value, made) == [val |-> value, made |-> made]
Raise(exception, made) == [val |-> <<"error", exception>>, made |-> made]

\* cls.from_dict(attributes): keyword arguments and attributes by name
from_dict(cls, attributes, made) ==
    IF attributes[1] = "dict" /\ \A p \in attributes[2] : p[1][1] = "str"
    THEN Return(<<"obj", <<cls, attributes>> >>, made \cup {cls})
    ELSE IF attributes[1] = "none"
    THEN Return(<<"obj", <<cls, <<"dict", {}>> >> >>, made \cup {cls})
    ELSE Raise("TypeError", made \cup {cls})

\* every class passes for a creatable one
IsCreatable_Any(cls) == TRUE

\* obj['_cls'] in self.class_list
IsCreatable(cls) == cls[1] = "str" /\ cls[2] \in class_list

RECURSIVE build(_, _), BuildAll(_, _, _, _)

\* [self.build(o) for o in todo]: ends at the first exception
BuildAll(variant, todo, done, made) ==
    IF todo = <<>> THEN Return(<<"list", done>>, made)
    ELSE LET r == build(variant, Head(todo))
         IN  IF r.val[1] = "error" THEN Raise(r.val[2], made \cup r.made)
             ELSE BuildAll(variant, Tail(todo), Append(done, r.val),
                           made \cup r.made)

build(variant, obj) ==
    LET IsSeq(v) == v[1] \in {"list", "tuple"}
        items == iteritems(obj[2])
        Tagged(tag, r) == IF r.val[1] = "error" THEN r
                          ELSE Return(<<tag, r.val[2]>>, r.made)
    IN
    IF obj[1] = "dict" THEN
        IF Has(obj, "_slice") THEN
            \* slice(*obj['_slice'])
            LET a == Get(obj, "_slice")
            IN  IF ~IsSeq(a) \/ Len(a[2]) \notin 1..3
                THEN Raise("TypeError", {})
                ELSE Return(<<"slice",
                        CASE Len(a[2]) = 1 -> << <<"none", 0>>, a[2][1],
                                                 <<"none", 0>> >>
                          [] Len(a[2]) = 2 -> a[2] \o << <<"none", 0>> >>
                          [] OTHER -> a[2]>>, {})
        ELSE IF Has(obj, "_cls") /\ Has(obj, "_dict") THEN
            IF IsCreatable(Get(obj, "_cls"))
            THEN LET attributes == build(variant, Get(obj, "_dict"))
                 IN  IF attributes.val[1] = "error" THEN attributes
                     ELSE from_dict(Get(obj, "_cls")[2], attributes.val,
                                    attributes.made)
            ELSE Raise("ValueError", {})
        ELSE IF variant = "todict" /\ Has(obj, "_tuple") THEN
            IF IsSeq(Get(obj, "_tuple"))
            THEN Tagged("tuple",
                        BuildAll(variant, Get(obj, "_tuple")[2], <<>>, {}))
            ELSE Raise("TypeError", {})
        ELSE IF variant = "todict" /\ Has(obj, "_dict") THEN
            \* {build(key): build(o) for key, o in build(obj['_dict'])}
            LET pairs == build(variant, Get(obj, "_dict"))
                n == Len(pairs.val[2])
                r == BuildAll(variant,
                        [i \in 1..(2 * n) |->
                            pairs.val[2][(i + 1) \div 2][2][2 - (i % 2)]],
                        <<>>, pairs.made)
                key(i) == r.val[2][2 * i - 1]
            IN  IF pairs.val[1] = "error" THEN pairs
                ELSE IF ~IsSeq(pairs.val) \/ \E i \in 1..n :
                          ~IsSeq(pairs.val[2][i]) \/ Len(pairs.val[2][i][2]) # 2
                THEN Raise("TypeError", pairs.made)
                ELSE IF r.val[1] = "error" THEN r
                ELSE IF \E i \in 1..n : key(i)[1] \in {"list", "dict", "slice"}
                THEN Raise("TypeError", r.made)
                ELSE Return(<<"dict",
                        {<<key(i), r.val[2][2 * i]>> :
                            i \in {j \in 1..n :
                                    \A k \in (j + 1)..n : key(k) # key(j)}}>>,
                        r.made)
        ELSE
            \* {key: build(o) for key, o in obj.iteritems()}
            LET r == BuildAll(variant,
                        [i \in 1..Len(items) |-> items[i][2]], <<>>, {})
            IN  IF r.val[1] = "error" THEN r
                ELSE Return(<<"dict", {<<items[i][1], r.val[2][i]>> :
                                         i \in 1..Len(items)}>>, r.made)
    ELSE IF obj[1] = "tuple" /\ variant # "todict" THEN
        Tagged("tuple", BuildAll(variant, obj[2], <<>>, {}))
    ELSE IF obj[1] = "list" THEN
        BuildAll(variant, obj[2], <<>>, {})
    ELSE Return(obj, {})

\* the values handed to simplify: numbers, strings, slices, lists, tuples,
\* dicts with string, int and tuple keys, objects of a creatable class
RECURSIVE Values(_)
Values(depth) ==
    IF depth = 0
    THEN {<<"int", 1>>, <<"str", "a">>,
          <<"slice", << <<"int", 0>>, <<"int", 1>>, <<"none", 0>> >> >>}
    ELSE LET V == Values(depth - 1)
             seqs == {<<>>} \cup {<<v>> : v \in V}
             keys == {<<"str", "a">>, <<"str", "_tuple">>, <<"int", 1>>,
                      <<"tuple", << <<"int", 1>> >> >>}
         IN  V \cup {<<"list", s>> : s \in seqs}
               \cup {<<"tuple", s>> : s \in seqs}
               \cup {<<"dict", {}>>}
               \cup {<<"dict", {<<k, v>>}>> : k \in keys, v \in V}
               \cup {<<"dict", {<< <<"str", "a">>, v>>,
                                << <<"tuple", <<>> >>, v>>}>> : v \in V}
               \cup {<<"obj", <<"A", <<"dict", {<< <<"str", "x">>, v>>}>> >> >> :
                        v \in V}

\* the documents handed to build by from_json: numbers, strings, lists,
\* plain dicts and _cls, _tuple, _dict and _slice records; class X is not
\* in class_list
RECURSIVE Documents(_)
Documents(depth) ==
    IF depth = 0
    THEN {<<"int", 1>>, <<"str", "a">>, <<"dict", {}>>}
    ELSE LET D == Documents(depth - 1)
             record(key, value) == <<"dict", {<< <<"str", key>>, value>>}>>
             list(s) == <<"list", s>>
         IN  D \cup {list(<<d>>) : d \in D}
               \cup {<<"dict", {<< <<"str", "_cls">>, <<"str", c>> >>,
                                << <<"str", "_dict">>, d>>}>> :
                        c \in {"A", "X"}, d \in D}
               \cup {record("_tuple", list(<<d>>)) : d \in D}
               \cup {record("_dict", list(<<list(<<d, <<"int", 1>> >>)>>)) :
                        d \in D}
               \cup {record("_dict", list(<<list(<< <<"str", "a">>, d>>),
                                            list(<< <<"int", 1>>, d>>)>>)) :
                        d \in D}
               \cup {record("_slice", list(<<d, <<"int", 1>>, <<"int", 2>> >>)) :
                        d \in D}
               \cup {record("a", d) : d \in D}

JsonInit ==
    /\ json_variant \in {"todict", "util.todict"}
    /\ json_out = Return(<<"none", 0>>, {})
    /\ \/ /\ json_pc = "value"
          /\ json_in \in Values(JsonDepth)
          /\ json_simple = <<"none", 0>>
       \/ /\ json_pc = "document"
          /\ json_in \in Documents(JsonDepth)
          /\ json_simple = json_in

JsonIdle ==
    /\ json_variant = "todict"
    /\ json_out = Return(<<"none", 0>>, {})
    /\ json_pc = "idle"
    /\ json_in = <<"none", 0>>
    /\ json_simple = <<"none", 0>>

\* simplified = self.simplify(obj)
Simplify ==
    /\ json_pc = "value"
    /\ json_simple' = simplify(json_variant, json_in)
    /\ json_pc' = "simplified"
    /\ UNCHANGED <<json_variant, json_in, json_out>>
    /\ Frame("json")

\* self.build(simplified), of a simplified value or of a loaded document
Build ==
    /\ json_pc \in {"simplified", "document"}
    /\ json_out' = build(json_variant, json_simple)
    /\ json_pc' = IF json_pc = "simplified" THEN "rebuilt" ELSE "built"
    /\ UNCHANGED <<json_variant, json_in, json_simple>>
    /\ Frame("json")

JsonNext == Simplify \/ Build

(***************************************************************************)
(* Configuration, Momentum and Snapshot (snapshot.py).  The objects live   *)
(* in heaps; an object is identified by its position in its heap, and 0    *)
(* stands for None.  Every value is a tuple: coordinates hold one entry    *)
(* per atom, "nan" is a not-a-number coordinate, velocities hold one       *)
(* integer per atom, an energy holds one integer, and None is <<>>.        *)
(***************************************************************************)
MaxObjects == 2

\* Configuration.__init__ and Momentum.__init__: the fields are copies of
\* the arguments
Configuration(coordinates, box_vectors, potential_energy, topology) ==
    [coordinates |-> coordinates, box_vectors |-> box_vectors,
     potential_energy |-> potential_energy, topology |-> topology]

Momentum(velocities, kinetic_energy) ==
    [velocities |-> velocities, kinetic_energy |-> kinetic_energy]

\* Snapshot.__init__(**a) on the heaps cfgs and moms: the heaps afterwards,
\* the new Snapshot, and the exception raised ("" when none)
Snapshot__init__(cfgs, moms, a) ==
    LET set(old, new) == IF new # None THEN new ELSE old
        c0 == IF a.configuration = 0
              THEN Configuration(None, None, None, None)
              ELSE cfgs[a.configuration]
        m0 == IF a.momentum = 0 THEN Momentum(None, None)
              ELSE moms[a.momentum]
        c1 == Configuration(set(c0.coordinates, a.coordinates),
                            set(c0.box_vectors, a.box_vectors),
                            set(c0.potential_energy, a.potential_energy),
                            set(c0.topology, a.topology))
        m1 == Momentum(set(m0.velocities, a.velocities),
                       set(m0.kinetic_energy, a.kinetic_energy))
        no_c == /\ c1.coordinates = None
                /\ c1.box_vectors = None
                /\ c1.potential_energy = None
        no_m == m1.velocities = None /\ m1.kinetic_energy = None
        isnan == ~no_c /\ \E i \in DOMAIN c1.coordinates :
                              c1.coordinates[i] = "nan"
        \* a Configuration() or Momentum() made here that nothing refers to
        \* afterwards is not kept
        cfgs1 == IF a.configuration # 0
                 THEN [cfgs EXCEPT ![a.configuration] = c1]
                 ELSE IF no_c \/ isnan THEN cfgs ELSE Append(cfgs, c1)
        moms1 == IF a.momentum # 0
                 THEN [moms EXCEPT ![a.momentum] = m1]
                 ELSE IF no_m \/ isnan THEN moms ELSE Append(moms, m1)
    IN  [configurations |-> cfgs1,
         momentums |-> moms1,
         snapshot |-> [configuration |->
                           IF no_c THEN 0
                           ELSE IF a.configuration # 0 THEN a.configuration
                           ELSE Len(cfgs) + 1,
                       momentum |->
                           IF no_m THEN 0
                           ELSE IF a.momentum # 0 THEN a.momentum
                           ELSE Len(moms) + 1,
                       reversed |-> a.reversed],
         raised |-> IF isnan THEN "ValueError" ELSE ""]

\* the properties of a Snapshot s: the value returned and the exception
\* raised.  has(attr) runs the property whenever the attribute exists, and
\* __init__ always sets self.configuration and self.momentum.
getattr(cfgs, moms, s, attr) ==
    LET return(v) == [value |-> v, raised |-> ""]
        raise(e) == [value |-> None, raised |-> e]
        c == cfgs[s.configuration]
        m == moms[s.momentum]
        potential_energy == IF s.configuration # 0 THEN c.potential_energy
                            ELSE None
        kinetic_energy == IF s.momentum # 0 THEN m.kinetic_energy ELSE None
    IN  CASE attr = "coordinates" ->
               IF s.configuration = 0 THEN raise("AttributeError")
               ELSE return(c.coordinates)
          [] attr = "velocities" ->
               IF s.momentum = 0 THEN raise("AttributeError")
               ELSE IF ~s.reversed THEN return(m.velocities)
               ELSE IF m.velocities = None THEN raise("TypeError")
               ELSE return([i \in DOMAIN m.velocities |->
                               -1 * m.velocities[i]])
          [] attr = "box_vectors" ->
               IF s.configuration # 0 THEN return(c.box_vectors)
               ELSE return(None)
          [] attr = "potential_energy" -> return(potential_energy)
          [] attr = "kinetic_energy" -> return(kinetic_energy)
          [] attr = "n_atoms" ->
               IF s.configuration = 0 THEN return(None)
               ELSE IF c.coordinates = None THEN raise("AttributeError")
               ELSE return(<<Len(c.coordinates)>>)
          [] attr = "total_energy" ->
               IF kinetic_energy = None \/ potential_energy = None
               THEN raise("TypeError")
               ELSE return(<<kinetic_energy[1] + potential_energy[1]>>)

SnapshotInit ==
    /\ configurations = <<>>
    /\ momentums = <<>>
    /\ snapshot_objs = <<>>
    /\ snap_call = [op |-> "", self |-> 0, raised |-> ""]

\* Configuration(coordinates, box_vectors, potential_energy, topology)
NewConfiguration(coordinates, box_vectors, potential_energy, topology) ==
    LET isnan == \E i \in DOMAIN coordinates : coordinates[i] = "nan"
    IN  /\ Len(configurations) < MaxObjects
        /\ configurations' =
               IF isnan THEN configurations
               ELSE Append(configurations,
                           Configuration(coordinates, box_vectors,
                                         potential_energy, topology))
        /\ snap_call' = [op |-> "Configuration", self |-> 0,
                         raised |-> IF isnan THEN "ValueError" ELSE ""]
        /\ UNCHANGED <<momentums, snapshot_objs>>
        /\ Frame("snapshot")

\* Snapshot(**a)
NewSnapshot(a) ==
    LET r == Snapshot__init__(configurations, momentums, a)
    IN  /\ a.configuration <= Len(configurations)
        /\ a.momentum <= Len(momentums)
        /\ Len(snapshot_objs) < MaxObjects
        /\ Len(r.configurations) <= MaxObjects
        /\ Len(r.momentums) <= MaxObjects
        /\ configurations' = r.configurations
        /\ momentums' = r.momentums
        /\ snapshot_objs' = IF r.raised = ""
                            THEN Append(snapshot_objs, r.snapshot)
                            ELSE snapshot_objs
        /\ snap_call' = [op |-> "Snapshot", self |-> 0, raised |-> r.raised]
        /\ Frame("snapshot")

\* self.copy(): Snapshot(configuration=self.configuration,
\*                       momentum=self.momentum, reversed=self.reversed)
copy(self) ==
    LET s == snapshot_objs[self]
        r == Snapshot__init__(configurations, momentums,
                 [coordinates |-> None, velocities |-> None,
                  box_vectors |-> None, potential_energy |-> None,
                  kinetic_energy |-> None, topology |-> None,
                  configuration |-> s.configuration,
                  momentum |-> s.momentum, reversed |-> s.reversed])
    IN  /\ self <= Len(snapshot_objs)
        /\ Len(snapshot_objs) < MaxObjects
        /\ configurations' = r.configurations
        /\ momentums' = r.momentums
        /\ snapshot_objs' = IF r.raised = ""
                            THEN Append(snapshot_objs, r.snapshot)
                            ELSE snapshot_objs
        /\ snap_call' = [op |-> "copy", self |-> self, raised |-> r.raised]
        /\ Frame("snapshot")

\* self.reverse(): self.reversed = not self.reversed; return self
reverse(self) ==
    /\ self <= Len(snapshot_objs)
    /\ snapshot_objs' = [snapshot_objs EXCEPT ![self].reversed = ~@]
    /\ snap_call' = [op |-> "reverse", self |-> self, raised |-> ""]
    /\ UNCHANGED <<configurations, momentums>>
    /\ Frame("snapshot")

\* self.reversed_copy(): return self.copy().reverse()
reversed_copy(self) ==
    LET s == snapshot_objs[self]
        r == Snapshot__init__(configurations, momentums,
                 [coordinates |-> None, velocities |-> None,
                  box_vectors |-> None, potential_energy |-> None,
                  kinetic_energy |-> None, topology |-> None,
                  configuration |-> s.configuration,
                  momentum |-> s.momentum, reversed |-> s.reversed])
    IN  /\ self <= Len(snapshot_objs)
        /\ Len(snapshot_objs) < MaxObjects
        /\ configurations' = r.configurations
        /\ momentums' = r.momentums
        /\ snapshot_objs' =
               IF r.raised = ""
               THEN Append(snapshot_objs,
                           [r.snapshot EXCEPT !.reversed = ~@])
               ELSE snapshot_objs
        /\ snap_call' = [op |-> "reversed_copy", self |-> self,
                         raised |-> r.raised]
        /\ Frame("snapshot")

\* self.subset(atoms): Snapshot(configuration=self.configuration.copy(atoms),
\*     momentum=self.momentum.copy(atoms), reversed=self.reversed)
subset(self, atoms) ==
    LET s == snapshot_objs[self]
        c == configurations[s.configuration]
        m == momentums[s.momentum]
        take(array) == [k \in DOMAIN atoms |-> array[atoms[k]]]
        outside(array) == \E k \in DOMAIN atoms : atoms[k] > Len(array)
        \* Configuration.copy(subset): an independent Configuration
        c_raised ==
            IF s.configuration = 0 THEN "AttributeError"
            ELSE IF c.coordinates = None THEN "TypeError"
            ELSE IF outside(c.coordinates) THEN "IndexError"
            ELSE IF c.topology = None THEN "AttributeError"
            ELSE IF \E k \in DOMAIN atoms : c.coordinates[atoms[k]] = "nan"
            THEN "ValueError"
            ELSE ""
        \* Momentum.copy(subset)
        m_raised ==
            IF s.momentum = 0 THEN "AttributeError"
            ELSE IF m.velocities = None THEN "TypeError"
            ELSE IF outside(m.velocities) THEN "IndexError"
            ELSE ""
        raised == IF c_raised # "" THEN c_raised ELSE m_raised
        r == Snapshot__init__(
                 Append(configurations,
                        Configuration(take(c.coordinates), c.box_vectors,
                                      c.potential_energy, c.topology)),
                 Append(momentums,
                        Momentum(take(m.velocities), m.kinetic_energy)),
                 [coordinates |-> None, velocities |-> None,
                  box_vectors |-> None, potential_energy |-> None,
                  kinetic_energy |-> None, topology |-> None,
                  configuration |-> Len(configurations) + 1,
                  momentum |-> Len(momentums) + 1, reversed |-> s.reversed])
    IN  /\ self <= Len(snapshot_objs)
        /\ Len(snapshot_objs) < MaxObjects
        /\ Len(configurations) < MaxObjects
        /\ Len(momentums) < MaxObjects
        /\ IF raised # ""
           THEN UNCHANGED <<configurations, momentums, snapshot_objs>>
           ELSE /\ configurations' = r.configurations
                /\ momentums' = r.momentums
                /\ snapshot_objs' = Append(snapshot_objs, r.snapshot)
        /\ snap_call' = [op |-> "subset", self |-> self, raised |-> raised]
        /\ Frame("snapshot")

SnapshotNext ==
    \/ \E coordinates \in {None, <<"x", "y">>, <<"x", "nan">>},
          potential_energy \in {None, <<1>>} :
          NewConfiguration(coordinates, None, potential_energy, <<"top">>)
    \/ \E coordinates \in {None, <<"x", "y">>, <<"x", "nan">>},
          potential_energy \in {None, <<1>>},
          velocities \in {None, <<1, -2>>},
          kinetic_energy \in {None, <<2>>},
          configuration \in 0..MaxObjects, momentum \in 0..MaxObjects :
          NewSnapshot([coordinates |-> coordinates,
                       velocities |-> velocities,
                       box_vectors |-> None,
                       potential_energy |-> potential_energy,
                       kinetic_energy |-> kinetic_energy,
                       topology |-> None,
                       configuration |-> configuration,
                       momentum |-> momentum,
                       reversed |-> FALSE])
    \/ \E self \in 1..MaxObjects : copy(self)
    \/ \E self \in 1..MaxObjects : reverse(self)
    \/ \E self \in 1..MaxObjects : reversed_copy(self)
    \/ \E self \in 1..MaxObjects : subset(self, <<1>>)

(***************************************************************************)
(* Feature-composed snapshot classes (engines/features/base.py).  A        *)
(* feature declares attribute names and lists some of them as minus, flip  *)
(* or lazy.  The value of an attribute is a tuple holding one integer      *)
(* (False is 0 and True is 1) or None; a lazy payload is named by its      *)
(* tuple.  An object is its position in feature_objs; 0 is None.           *)
(***************************************************************************)
MaxTwins == 3

\* attach_features(features)(cls): the attribute lists kept in
\* cls.__features__
attach_features(feature) ==
    [attributes |-> feature.attributes, minus |-> feature.minus,
     flip |-> feature.flip, lazy |-> feature.lazy,
     properties |-> feature.properties,
     reversal |-> {attr \in feature.attributes :
                      /\ attr \notin feature.minus
                      /\ attr \notin feature.properties
                      /\ attr \notin feature.flip},
     parameters |-> {attr \in feature.attributes :
                        attr \notin feature.properties}]

\* a class decorated with one feature; no object of it constructed yet
FeatureInit ==
    /\ \E minus \in SUBSET {"f", "g"}, flip \in SUBSET {"f", "g"},
          lazy \in SUBSET {"f", "g"} :
          __features__ = attach_features(
              [attributes |-> {"f", "g"}, minus |-> minus, flip |-> flip,
               lazy |-> lazy, properties |-> {}])
    /\ feature_objs = <<>>
    /\ feature_call = [op |-> "", self |-> 0, raised |-> ""]

\* the compiled __init__(self, f=..., g=...)
Feature__init__(args) ==
    /\ feature_objs = <<>>
    /\ feature_objs' =
           <<[_lazy |-> [lazy \in __features__.lazy |-> args[lazy]],
              _reversed |-> 0,
              attrs |-> [x \in __features__.parameters \ __features__.lazy
                            |-> args[x]]]>>
    /\ feature_call' = [op |-> "__init__", self |-> 1, raised |-> ""]
    /\ UNCHANGED __features__
    /\ Frame("feature")

\* the compiled create_reversed(self)
create_reversed(self) ==
    LET s == feature_objs[self]
        own(names) == names \ __features__.lazy
        raised == IF \E x \in own(__features__.minus \cup __features__.flip) :
                         s.attrs[x] = None
                  THEN "TypeError" ELSE ""
        this == [_lazy |-> [lazy \in __features__.lazy |-> s._lazy[lazy]],
                 _reversed |-> self,
                 attrs |-> [x \in own(__features__.reversal
                                      \cup __features__.minus
                                      \cup __features__.flip) |->
                               IF x \in __features__.flip
                               THEN <<-s.attrs[x][1] - 1>>
                               ELSE IF x \in __features__.minus
                               THEN <<-s.attrs[x][1]>>
                               ELSE s.attrs[x]]]
    IN  /\ self <= Len(feature_objs)
        /\ Len(feature_objs) < MaxTwins
        /\ feature_objs' = IF raised = "" THEN Append(feature_objs, this)
                           ELSE feature_objs
        /\ feature_call' = [op |-> "create_reversed", self |-> self,
                            raised |-> raised]
        /\ UNCHANGED __features__
        /\ Frame("feature")

FeatureNext ==
    \/ \E args \in [{"f", "g"} -> {None, <<0>>, <<1>>}] :
          Feature__init__(args)
    \/ \E self \in 1..MaxTwins : create_reversed(self)

(***************************************************************************)
(* Volumes (volume.py).  A volume is a record with its class name in       *)
(* `type`; the collective variable of a snapshot is an integer l.  The     *)
(* range_logic module is not part of the sources: its three functions are  *)
(* modelled as interval algebra on closed ranges whose results are the     *)
(* values _lrange_to_Volume accepts.                                       *)
(***************************************************************************)
MaxLambda == 4

\* range_logic.range_and / range_or / range_sub: None, 1 (the range of a),
\* or a list of one or two (min, max) tuples
range_logic(op, amin, amax, bmin, bmax) ==
    LET none == [is |-> "None", list |-> <<>>]
        one == [is |-> "1", list |-> <<>>]
        list(l) == [is |-> "list", list |-> l]
        max(a, b) == IF a > b THEN a ELSE b
        min(a, b) == IF a < b THEN a ELSE b
    IN  CASE op = "and" ->
               IF amin = bmin /\ amax = bmax THEN one
               ELSE IF max(amin, bmin) > min(amax, bmax) THEN none
               ELSE list(<< <<max(amin, bmin), min(amax, bmax)>> >>)
          [] op = "or" ->
               IF amin = bmin /\ amax = bmax THEN one
               ELSE IF amin > bmax \/ bmin > amax
               THEN list(<< <<amin, amax>>, <<bmin, bmax>> >>)
               ELSE list(<< <<min(amin, bmin), max(amax, bmax)>> >>)
          [] op = "sub" ->
               IF amin = bmin /\ amax = bmax THEN none
               ELSE IF bmax < amin \/ amax < bmin THEN one
               ELSE IF amin < bmin /\ amax > bmax
               THEN list(<< <<amin, bmin>>, <<bmax, amax>> >>)
               ELSE IF amin < bmin THEN list(<< <<amin, bmin>> >>)
               ELSE IF amax > bmax THEN list(<< <<bmax, amax>> >>)
               ELSE none

\* self <op> other for op in "or", "and", "sub", "xor": LambdaVolume.__or__
\* and its siblings, with the Volume operators they fall back to.  The
\* operands are different objects, so `self is other` is false.
RECURSIVE combine(_, _, _)
combine(op, self, other) ==
    LET LambdaVolume(lmin, lmax) ==
            [type |-> "LambdaVolume", orderparameter |-> self.orderparameter,
             lambda_min |-> lmin, lambda_max |-> lmax]
        _lrange_to_Volume(lrange) ==
            IF lrange.is = "None" THEN [type |-> "EmptyVolume"]
            ELSE IF lrange.is = "1" THEN self
            ELSE IF Len(lrange.list) = 1
            THEN LambdaVolume(lrange.list[1][1], lrange.list[1][2])
            ELSE [type |-> "OrVolume",
                  volume1 |-> LambdaVolume(lrange.list[1][1],
                                           lrange.list[1][2]),
                  volume2 |-> LambdaVolume(lrange.list[2][1],
                                           lrange.list[2][2])]
        Combination == [type |-> CASE op = "or" -> "OrVolume"
                                   [] op = "and" -> "AndVolume"
                                   [] op = "sub" -> "SubVolume"
                                   [] op = "xor" -> "XorVolume",
                        volume1 |-> self, volume2 |-> other]
    IN  IF /\ self.type = "LambdaVolume"
           /\ other.type = "LambdaVolume"
           /\ self.orderparameter = other.orderparameter
        THEN IF op = "xor"
             THEN combine("sub", combine("or", self, other),
                          combine("and", self, other))
             ELSE _lrange_to_Volume(
                      range_logic(op, self.lambda_min, self.lambda_max,
                                  other.lambda_min, other.lambda_max))
        ELSE IF self.type = "EmptyVolume"
        THEN (IF op \in {"and", "sub"} THEN self ELSE other)
        ELSE IF self.type = "FullVolume"
        THEN (IF op = "and" THEN other
              ELSE IF op = "or" THEN self
              ELSE [type |-> "NegatedVolume", volume |-> other])
        ELSE IF other.type = "EmptyVolume"
        THEN (IF op = "and" THEN other ELSE self)
        ELSE IF other.type = "FullVolume"
        THEN (IF op = "and" THEN self
              ELSE IF op = "or" THEN other
              ELSE IF op = "sub" THEN [type |-> "EmptyVolume"]
              ELSE [type |-> "NegatedVolume", volume |-> self])
        ELSE Combination

\* the value is used as it is, without wrapping it into the period
do_wrap_Identity(self, value) == value

\* LambdaVolumePeriodic.do_wrap
do_wrap(self, value) ==
    ((value - self._period_shift) % self._period_len) + self._period_shift

\* volume(snapshot), for a snapshot whose collective variable is l
RECURSIVE __call__(_, _)
__call__(self, l) ==
    CASE self.type = "EmptyVolume" -> FALSE
      [] self.type = "FullVolume" -> TRUE
      [] self.type = "LambdaVolume" ->
           l >= self.lambda_min /\ l <= self.lambda_max
      [] self.type = "LambdaVolumePeriodic" ->
           LET w == IF self.wrap THEN do_wrap(self, l) ELSE l
           IN  IF self.lambda_min > self.lambda_max
               THEN w >= self.lambda_min \/ w <= self.lambda_max
               ELSE w >= self.lambda_min /\ w <= self.lambda_max
      [] self.type = "NegatedVolume" -> ~__call__(self.volume, l)
      [] self.type = "OrVolume" ->
           __call__(self.volume1, l) \/ __call__(self.volume2, l)
      [] self.type = "AndVolume" ->
           __call__(self.volume1, l) /\ __call__(self.volume2, l)
      [] self.type = "XorVolume" ->
           __call__(self.volume1, l) # __call__(self.volume2, l)
      [] self.type = "SubVolume" ->
           __call__(self.volume1, l) /\ ~__call__(self.volume2, l)

\* LambdaVolumePeriodic(cv, lambda_min, lambda_max, period_min, period_max)
\* with both period bounds given; the exception is the result when it raises
LambdaVolumePeriodic(lambda_min, lambda_max, period_min, period_max) ==
    LET self == [type |-> "LambdaVolumePeriodic", orderparameter |-> "cv",
                 lambda_min |-> lambda_min, lambda_max |-> lambda_max,
                 period_min |-> period_min, period_max |-> period_max,
                 _period_shift |-> period_min,
                 _period_len |-> period_max - period_min, wrap |-> TRUE]
    IN  IF lambda_max - lambda_min > self._period_len
        THEN [type |-> "Exception"]
        ELSE IF lambda_max - lambda_min = self._period_len
        THEN [self EXCEPT !.lambda_min = period_min,
                          !.lambda_max = period_max]
        ELSE [self EXCEPT !.lambda_min = do_wrap(self, lambda_min),
                          !.lambda_max = do_wrap(self, lambda_max)]

\* LambdaVolumePeriodic.__invert__: the volume with max and min swapped
__invert__(self) ==
    LambdaVolumePeriodic(self.lambda_max, self.lambda_min,
                         self.period_min, self.period_max)

\* two LambdaVolumes on one collective variable are combined
CombineVolumes(op, amin, amax, bmin, bmax) ==
    LET A == [type |-> "LambdaVolume", orderparameter |-> "cv",
              lambda_min |-> amin, lambda_max |-> amax]
        B == [A EXCEPT !.lambda_min = bmin, !.lambda_max = bmax]
    IN  /\ volume_in.op = ""
        /\ amin <= amax
        /\ bmin <= bmax
        /\ volume_in' = [op |-> op, A |-> A, B |-> B]
        /\ volume_out' = combine(op, A, B)
        /\ Frame("volume")

\* a periodic volume is constructed
NewLambdaVolumePeriodic(lambda_min, lambda_max, period_min, period_max) ==
    /\ volume_in.op = ""
    /\ period_min < period_max
    /\ volume_in' = [op |-> "LambdaVolumePeriodic",
                     A |-> <<lambda_min, lambda_max>>,
                     B |-> <<period_min, period_max>>]
    /\ volume_out' = LambdaVolumePeriodic(lambda_min, lambda_max,
                                          period_min, period_max)
    /\ Frame("volume")

VolumeNext ==
    \/ \E op \in {"or", "and", "sub", "xor"},
          amin \in 0..MaxLambda, amax \in 0..MaxLambda,
          bmin \in 0..MaxLambda, bmax \in 0..MaxLambda :
          CombineVolumes(op, amin, amax, bmin, bmax)
    \/ \E lambda_min \in -MaxLambda..(2 * MaxLambda),
          lambda_max \in -MaxLambda..(2 * MaxLambda),
          period_min \in {-1, 0}, period_max \in 1..MaxLambda :
          NewLambdaVolumePeriodic(lambda_min, lambda_max,
                                  period_min, period_max)

(***************************************************************************)
(* Specifications.                                                         *)
(***************************************************************************)
EngineIdle ==
    /\ initialized = FALSE
    /\ n_frames_max = 0
    /\ running = <<>>
    /\ trajectory = <<>>
    /\ gen_snapshot = 0
    /\ gen_running = {}
    /\ pc = "idle"

(***************************************************************************)
(* DynamicsEngine options.  A value is its type, the dimension of its unit *)
(* (Quantity and Unit only) and the type of its first element (list only,  *)
(* "" for the empty list).                                                 *)
(***************************************************************************)
\* the option table of an engine class: DynamicsEngine._default_options
\* updated with the subclass's table
_default_options ==
    [n_frames_max |-> [type |-> "int", unit |-> "", first |-> ""],
     timestep |-> [type |-> "Quantity", unit |-> "time", first |-> ""],
     solute_indices |-> [type |-> "list", unit |-> "", first |-> "int"]]

\* options: the dict handed to the constructor.  Returns okay_options and
\* the set of errors the loop over the table can raise (the first variable
\* of the dict order that fails raises its error)
_register_options(given) ==
    LET my_options == [variable \in DOMAIN _default_options |->
                         IF variable \in DOMAIN given THEN given[variable]
                         ELSE _default_options[variable]]
        check(variable) ==
            LET value == my_options[variable]
                default_value == _default_options[variable]
            IN  IF value.type = default_value.type
                THEN IF value.type = "Unit"
                     THEN "AttributeError"  \* a Unit has no attribute unit
                     ELSE IF value.type = "list"
                     THEN IF value.first = "" THEN "IndexError"
                          ELSE IF value.first = default_value.first THEN ""
                          ELSE "ValueError"
                     ELSE ""                \* a Quantity is accepted here
                ELSE IF default_value.type = "type" THEN ""
                ELSE IF default_value.type = "NoneType" THEN ""
                ELSE "ValueError"
    IN  [options |-> my_options,
         errors |-> {check(variable) : variable \in DOMAIN my_options} \ {""}]

\* DynamicsEngine(options=given): the engine exists when nothing is raised
DynamicsEngine__init__(given) ==
    /\ ~options.called
    /\ LET r == _register_options(given)
       IN  IF r.errors = {}
           THEN options' = [called |-> TRUE, given |-> given,
                            options |-> r.options, raised |-> ""]
           ELSE \E e \in r.errors :
                    options' = [called |-> TRUE, given |-> given,
                                options |-> <<>>, raised |-> e]
    /\ Frame("options")

OptionsNext ==
    \E keys \in SUBSET DOMAIN _default_options :
        \E given \in [keys ->
                {[type |-> "int", unit |-> "", first |-> ""],
                 [type |-> "float", unit |-> "", first |-> ""],
                 [type |-> "Quantity", unit |-> "time", first |-> ""],
                 [type |-> "Quantity", unit |-> "length", first |-> ""],
                 [type |-> "Unit", unit |-> "time", first |-> ""],
                 [type |-> "list", unit |-> "", first |-> "int"],
                 [type |-> "list", unit |-> "", first |-> "str"],
                 [type |-> "list", unit |-> "", first |-> ""]}] :
            DynamicsEngine__init__(given)

(***************************************************************************)
(* SingleTrajectoryAnalysis.  A trajectory is the sequence of its frames,  *)
(* a frame the region its coordinate lies in ("a": stateA, "b": stateB,    *)
(* "x": neither).  A segment is the slice trajectory[start:stop].          *)
(***************************************************************************)
MaxTrajLen == 2
MaxCalls == 2

\* the trajectory of the test fixture
traj_str ==
    <<"a", "a", "a", "x", "a", "x", "x", "b", "x", "a", "x", "a", "b", "a",
      "b", "a", "x", "b", "b", "b", "b", "b", "x", "x", "x", "x", "x", "x",
      "a">>

\* Ensemble.split(traj, overlap): the scan from the left that yields
\* the maximal contiguous sub-trajectories satisfying the ensemble;
\* AllInXEnsemble(volume) holds of t when every frame of t is in volume
split(ensemble, traj, overlap) ==
    LET n == Len(traj)
        __call__AllInX(t) == \A i \in 1..Len(t) : t[i] = ensemble.volume
        RECURSIVE scan(_)
        scan(start) ==
            IF start >= n THEN <<>>
            ELSE LET stops == {stop \in (start + 1)..n :
                                __call__AllInX(SubSeq(traj, start + 1, stop))}
                 IN  IF stops = {} THEN scan(start + 1)
                     ELSE LET stop == CHOOSE s \in stops :
                                          \A t \in stops : t <= s
                          IN  <<[start |-> start, stop |-> stop]>> \o
                              scan(IF stop - overlap > start
                                   THEN stop - overlap ELSE start + 1)
    IN  scan(0)

\* continuous_frames[state]: the number of frames of each segment
continuous_frames(state) ==
    [i \in 1..Len(continuous_segments[state]) |->
        continuous_segments[state][i].stop
            - continuous_segments[state][i].start]

reset_analysis ==
    /\ analysis_call.n < MaxCalls
    /\ continuous_segments' = [a |-> <<>>, b |-> <<>>]
    /\ analysis_call' = [op |-> "reset_analysis", state |-> "", raised |-> "",
                         n |-> analysis_call.n + 1]
    /\ Frame("analysis")

analyze_continuous_time_Overwrite(traj, state) ==
    /\ analysis_call.n < MaxCalls
    /\ LET ensemble == [type |-> "AllInXEnsemble", volume |-> state]
       IN  IF state \notin DOMAIN continuous_segments
           THEN /\ continuous_segments' = continuous_segments
                /\ analysis_call' = [op |-> "analyze_continuous_time",
                                     state |-> state, raised |-> "KeyError",
                                     n |-> analysis_call.n + 1]
           ELSE /\ continuous_segments' =
                       [continuous_segments EXCEPT ![state] =
                           split(ensemble, traj, 0)]
                /\ analysis_call' = [op |-> "analyze_continuous_time",
                                     state |-> state, raised |-> "",
                                     n |-> analysis_call.n + 1]
    /\ Frame("analysis")

analyze_continuous_time(traj, state) ==
    /\ analysis_call.n < MaxCalls
    /\ LET ensemble == [type |-> "AllInXEnsemble", volume |-> state]
       IN  IF state \notin DOMAIN continuous_segments
           THEN /\ continuous_segments' = continuous_segments
                /\ analysis_call' = [op |-> "analyze_continuous_time",
                                     state |-> state, raised |-> "KeyError",
                                     n |-> analysis_call.n + 1]
           ELSE /\ continuous_segments' =
                       [continuous_segments EXCEPT ![state] =
                           @ \o split(ensemble, traj, 0)]
                /\ analysis_call' = [op |-> "analyze_continuous_time",
                                     state |-> state, raised |-> "",
                                     n |-> analysis_call.n + 1]
    /\ Frame("analysis")

AnalysisNext ==
    \/ reset_analysis
    \/ \E traj \in
           UNION {[1..n -> {"a", "b", "x"}] : n \in 0..MaxTrajLen}
               \cup {traj_str} :
           \E state \in {"a", "b", "x"} :
               analyze_continuous_time(traj, state)

(***************************************************************************)
(* VariableStore.cache_all.  The store is opened on a file that holds      *)
(* NumStored objects, at the indices 0..NumStored-1; the cache maps an     *)
(* index to the object built for it (an object is its creation number).    *)
(* part is None or <<S>>, S the set of the indices in the list given.      *)
(***************************************************************************)
NumStored == 3

\* if index not in self.cache: self.cache[index] = self.content_class(*data)
add_to_cache(the_cache, index, obj) ==
    IF index \in DOMAIN the_cache THEN the_cache
    ELSE [i \in DOMAIN the_cache \cup {index} |->
             IF i = index THEN obj ELSE the_cache[i]]

cache_all(part) ==
    LET max_length == IF cache_size < 0 THEN NumStored ELSE cache_size
        Min(a, b) == IF a < b THEN a ELSE b
        length == IF part = None THEN Min(NumStored, max_length)
                  ELSE Min(Cardinality(part[1]), max_length)
        \* range(length), or the first length indices of sorted(set(part))
        the_part == IF part = None THEN 0..(length - 1)
                    ELSE {index \in part[1] :
                             Cardinality({j \in part[1] : j < index}) < length}
        RECURSIVE fill(_, _, _)
        fill(the_cache, todo, made) ==
            IF todo = {} THEN the_cache
            ELSE LET index == CHOOSE i \in todo : \A j \in todo : i <= j
                 IN  fill(add_to_cache(the_cache, index, made + 1),
                          todo \ {index},
                          IF index \in DOMAIN the_cache THEN made ELSE made + 1)
    IN  /\ cache_call' = [op |-> "cache_all", part |-> part]
        /\ IF the_part # {} /\ ~_cached_all
           THEN /\ cache' = fill(cache, the_part, Cardinality(DOMAIN cache))
                /\ _cached_all' = TRUE
           ELSE UNCHANGED <<cache, _cached_all>>
        /\ UNCHANGED cache_size
        /\ Frame("variable")

VariableNext ==
    \E part \in {None} \cup {<<S>> : S \in SUBSET (0..(NumStored - 1))} :
        cache_all(part)

(***************************************************************************)
(* OpenMMEngine: the simulation (the positions and velocities of its       *)
(* context, the particle masses of its system) and the cached current      *)
(* snapshot, a position in snapshot_objs or 0 for None.  The state the     *)
(* integrator reaches by a call of simulation.step is an input.            *)
(***************************************************************************)
\* engine.current_snapshot: build the snapshot from the context if none is
\* cached
current_snapshot ==
    LET r == Snapshot__init__(configurations, momentums,
                 [coordinates |-> simulation.positions,
                  velocities |-> simulation.velocities,
                  box_vectors |-> None, potential_energy |-> <<1>>,
                  kinetic_energy |-> <<2>>, topology |-> <<"top">>,
                  configuration |-> 0, momentum |-> 0, reversed |-> FALSE])
    IN  /\ _current_snapshot = 0
        /\ Len(snapshot_objs) < MaxObjects
        /\ configurations' = r.configurations
        /\ momentums' = r.momentums
        /\ snapshot_objs' = Append(snapshot_objs, r.snapshot)
        /\ _current_snapshot' = Len(snapshot_objs) + 1
        /\ openmm_call' = [op |-> "current_snapshot", raised |-> "",
                           step_masses |-> <<>>]
        /\ UNCHANGED <<simulation, solute_indices, snap_call>>
        /\ Frame("openmm")

\* engine.current_snapshot = snapshot
set_current_snapshot(snapshot) ==
    LET new == snapshot_objs[snapshot]
        old == snapshot_objs[_current_snapshot]
        cached == _current_snapshot # 0
        positions ==
            IF new.configuration # 0
               /\ (~cached \/ new.configuration # old.configuration)
            THEN getattr(configurations, momentums, new, "coordinates").value
            ELSE simulation.positions
        velocities ==
            IF new.momentum # 0
               /\ (~cached \/ new.momentum # old.momentum
                           \/ new.reversed # old.reversed)
            THEN getattr(configurations, momentums, new, "velocities").value
            ELSE simulation.velocities
    IN  /\ snapshot <= Len(snapshot_objs)
        /\ IF snapshot # _current_snapshot
           THEN /\ simulation' = [simulation EXCEPT
                                     !.positions = positions,
                                     !.velocities = velocities]
                /\ _current_snapshot' = snapshot
           ELSE UNCHANGED <<simulation, _current_snapshot>>
        /\ openmm_call' = [op |-> "set_current_snapshot", raised |-> "",
                           step_masses |-> <<>>]
        /\ UNCHANGED <<solute_indices, snapshot_vars>>
        /\ Frame("openmm")

\* simulation.step(nsteps_per_frame); self._current_snapshot = None;
\* return self.current_snapshot
generate_next_frame_OpenMM(positions, velocities) ==
    LET r == Snapshot__init__(configurations, momentums,
                 [coordinates |-> positions, velocities |-> velocities,
                  box_vectors |-> None, potential_energy |-> <<1>>,
                  kinetic_energy |-> <<2>>, topology |-> <<"top">>,
                  configuration |-> 0, momentum |-> 0, reversed |-> FALSE])
    IN  /\ Len(snapshot_objs) < MaxObjects
        /\ simulation' = [simulation EXCEPT !.positions = positions,
                                            !.velocities = velocities]
        /\ configurations' = r.configurations
        /\ momentums' = r.momentums
        /\ snapshot_objs' = Append(snapshot_objs, r.snapshot)
        /\ _current_snapshot' = Len(snapshot_objs) + 1
        /\ openmm_call' = [op |-> "generate_next_frame", raised |-> "",
                           step_masses |-> simulation.masses]
        /\ UNCHANGED <<solute_indices, snap_call>>
        /\ Frame("openmm")

\* equilibrate(nsteps): solute_masses has len(solute_indices) entries and is
\* indexed by the atom index i
equilibrate(positions, velocities) ==
    LET n_solute == Len(solute_indices)
        RECURSIVE zero(_, _, _)
        \* the first loop from position k on: the masses of the system, the
        \* array solute_masses and the exception raised
        zero(k, masses, solute_masses) ==
            IF k > n_solute
            THEN [masses |-> masses, solute_masses |-> solute_masses,
                  raised |-> ""]
            ELSE LET i == solute_indices[k]
                 IN  IF i >= n_solute
                     THEN [masses |-> masses,
                           solute_masses |-> solute_masses,
                           raised |-> "IndexError"]
                     ELSE zero(k + 1, [masses EXCEPT ![i + 1] = 0],
                               [solute_masses EXCEPT ![i + 1] =
                                   masses[i + 1]])
        z == zero(1, simulation.masses, [k \in 1..n_solute |-> 0])
        RECURSIVE restore(_, _)
        restore(k, masses) ==
            IF k > n_solute THEN masses
            ELSE restore(k + 1,
                         [masses EXCEPT ![solute_indices[k] + 1] =
                             z.solute_masses[solute_indices[k] + 1]])
    IN  /\ IF z.raised # ""
           THEN /\ simulation' = [simulation EXCEPT !.masses = z.masses]
                /\ UNCHANGED _current_snapshot
                /\ openmm_call' = [op |-> "equilibrate",
                                   raised |-> z.raised,
                                   step_masses |-> <<>>]
           ELSE /\ simulation' = [positions |-> positions,
                                  velocities |-> velocities,
                                  masses |-> restore(1, z.masses)]
                /\ _current_snapshot' = 0
                /\ openmm_call' = [op |-> "equilibrate", raised |-> "",
                                   step_masses |-> z.masses]
        /\ UNCHANGED <<solute_indices, snapshot_vars>>
        /\ Frame("openmm")

OpenMMNext ==
    \/ current_snapshot
    \/ \E snapshot \in 1..MaxObjects : set_current_snapshot(snapshot)
    \/ \E positions \in {<<"x", "y">>, <<"y", "x">>},
          velocities \in {<<1, -2>>, <<3, 4>>} :
          generate_next_frame_OpenMM(positions, velocities)
    \/ \E positions \in {<<"x", "y">>, <<"y", "x">>},
          velocities \in {<<1, -2>>, <<3, 4>>} :
          equilibrate(positions, velocities)
    \/ \E self \in 1..MaxObjects : copy(self)
    \/ \E self \in 1..MaxObjects : reverse(self)

(***************************************************************************)
(* The legacy OrderParameter and its SnapshotCache.  A frame is            *)
(* [idx, value]: the storage index of its configuration (0: not saved)     *)
(* and the value _eval gives for it; the cache is [cache, is_cached],      *)
(* with cache[i] of the code at position i + 1.                            *)
(***************************************************************************)
MaxIndex == 2

\* Cache.__getitem__ for a list index, the form _assign uses; eval0 is the
\* outcome of the evaluation function on index 0: <<v>> for the value v it
\* returns, <<>> when it raises
Cache__getitem__(self, index, eval0) ==
    LET indices == {index[k] : k \in 1..Len(index)}
        max_idx == (CHOOSE m \in indices : \A i \in indices : i <= m) + 1
        resized == IF max_idx > Len(self.cache)
                   THEN self.cache \o
                        [k \in 1..(max_idx - Len(self.cache)) |-> 0]
                   ELSE self.cache
        no_cache == SelectSeq(index, LAMBDA i : i \notin self.is_cached)
        result(i) == IF i = 0 THEN eval0[1] ELSE 10 * i
        raised == eval0 = <<>> /\ \E k \in 1..Len(no_cache) :
                                        no_cache[k] = 0
        filled == [k \in 1..Len(resized) |->
                      IF \E n \in 1..Len(no_cache) : no_cache[n] = k - 1
                      THEN result(k - 1) ELSE resized[k]]
    IN  IF raised
        THEN [cache |-> resized, is_cached |-> self.is_cached,
              evaluated |-> no_cache, raised |-> "Exception", ret |-> <<>>]
        ELSE [cache |-> filled,
              is_cached |-> self.is_cached \cup
                            {no_cache[n] : n \in 1..Len(no_cache)},
              evaluated |-> no_cache, raised |-> "",
              ret |-> [k \in 1..Len(index) |->
                          IF index[k] > 0 THEN <<filled[index[k] + 1]>>
                          ELSE None]]

\* OrderParameter._assign with use_cache set, as __init__ leaves it
_assign(snaps, single, eval0) ==
    LET traj_indices == [k \in 1..Len(snaps) |-> snaps[k].idx]
        g == Cache__getitem__(op_cache, traj_indices, eval0)
        no_index == {k \in 1..Len(snaps) : traj_indices[k] = 0}
        d == [k \in 1..Len(snaps) |->
                 IF k \in no_index THEN <<snaps[k].value>>
                 ELSE g.ret[k]]
    IN  /\ single => Len(snaps) = 1
        /\ op_cache' = [cache |-> g.cache, is_cached |-> g.is_cached]
        /\ op_call' = [op |-> "_assign", snapshots |-> snaps,
                       single |-> single, evaluated |-> g.evaluated,
                       raised |-> g.raised,
                       direct |-> IF g.raised = "" THEN no_index ELSE {},
                       d |-> IF g.raised # "" THEN <<>>
                             ELSE IF single THEN d[1] ELSE d]
        /\ Frame("orderparameter")

OrderParameterNext ==
    \E n \in 1..MaxTrajLen, single \in BOOLEAN, eval0 \in {<<0>>, <<>>} :
       \E snaps \in [1..n -> {[idx |-> i, value |-> 10 * i] :
                                     i \in 1..MaxIndex}
                                 \cup {[idx |-> 0, value |-> 7]}] :
          _assign(snaps, single, eval0)

(***************************************************************************)
(* MSTISNetwork.build_movers.  network.from_state holds, per state, the    *)
(* movers dictionary of its sampling transition (a list of movers per      *)
(* label); a weight is the fraction <<numerator, denominator>>.  The       *)
(* sources are Python 2 without true division: len(...) / 2 is the floor.  *)
(***************************************************************************)
MaxStates == 2
MaxMovers == 2

build_movers ==
    LET RECURSIVE get_movers_from_transitions(_, _)
        get_movers_from_transitions(label, t) ==
            IF t > Len(network.from_state) THEN <<>>
            ELSE network.from_state[t][label] \o
                 get_movers_from_transitions(label, t + 1)
        shooting == get_movers_from_transitions("shooting", 1)
        pathreversal == get_movers_from_transitions("pathreversal", 1)
        minus == get_movers_from_transitions("minus", 1)
        repex == get_movers_from_transitions("repex", 1)
        msouter_repex == [t \in 1..Len(network.from_state) |->
                             "ReplicaExchangeMover"]
        msouter_pathreversal == <<"PathReversalMover">>
        msouter_shooting == <<"OneWayShootingMover">>
        shooting_chooser == shooting \o msouter_shooting
        repex_chooser == repex
        rev_chooser == pathreversal \o msouter_pathreversal
        minus_chooser == minus
        msouter_chooser == msouter_repex
        weights == << <<Len(shooting_chooser), 1>>,
                      <<Len(repex_chooser) \div 2, 1>>,
                      <<Len(rev_chooser) \div 2, 1>>,
                      <<2, 10 * Len(shooting_chooser)>>,
                      <<network.outer_ensembles, 1>> >>
    IN  /\ network' = [network EXCEPT
              !.built = TRUE,
              !.move_scheme =
                  [movers |-> <<shooting_chooser, repex_chooser,
                                rev_chooser, minus_chooser,
                                msouter_chooser>>,
                   weights |-> weights]]
        /\ Frame("network")

NetworkNext == build_movers

(***************************************************************************)
(* summarize_trajectory.  A frame is a number, a volume the set of frames  *)
(* it contains, a label the sequence of its characters, and label_dict the *)
(* sequence of its [key, volume] items, of distinct keys, in the order     *)
(* keys() gives them.                                                      *)
(***************************************************************************)
summarize_trajectory(traj, label_dict) ==
    LET \* the variable key after the loop over label_dict.keys()
        key == label_dict[Len(label_dict)].key
        RECURSIVE loop(_, _, _, _)
        loop(k, last_vol, count, segment_labels) ==
            IF k > Len(traj)
            THEN [raised |-> "", segment_labels |-> segment_labels]
            ELSE IF label_dict = <<>>
            THEN [raised |-> "NameError", segment_labels |-> <<>>]
            ELSE IF Len(key) > 1
            THEN [raised |-> "RuntimeError", segment_labels |-> <<>>]
            ELSE LET current_vol == IF Len(key) = 0 THEN None ELSE key
                 IN  IF last_vol = current_vol
                     THEN loop(k + 1, last_vol, count + 1, segment_labels)
                     ELSE loop(k + 1, current_vol, 1,
                               IF count > 0
                               THEN Append(segment_labels,
                                           <<last_vol, count>>)
                               ELSE segment_labels)
        r == loop(1, None, 0, <<>>)
    IN  /\ \A i, j \in 1..Len(label_dict) :
              i # j => label_dict[i].key # label_dict[j].key
        /\ summary' = [op |-> "summarize_trajectory", trajectory |-> traj,
                       label_dict |-> label_dict, raised |-> r.raised,
                       segment_labels |-> r.segment_labels]
        /\ Frame("summary")

SummaryNext ==
    \E n \in 0..MaxTrajLen, m \in 0..2 :
       \E traj \in [1..n -> 0..2],
          label_dict \in [1..m -> [key : {<<"A">>, <<"B">>, <<"i", "n">>},
                                   volume : {{0}, {1}, {0, 1}}]] :
          summarize_trajectory(traj, label_dict)

\* every object as constructed; the subsystems a specification does not
\* exercise start from one state
Init(subsystem) ==
    /\ ChangeInit
    /\ IF subsystem = "engine" THEN EngineInit ELSE EngineIdle
    /\ StoreInit
    /\ SaveInit
    /\ NamedInit
    /\ IF subsystem = "json" THEN JsonInit ELSE JsonIdle
    /\ SnapshotInit
    /\ IF subsystem = "feature" THEN FeatureInit
       ELSE /\ __features__ = <<>>
            /\ feature_objs = <<>>
            /\ feature_call = <<>>
    /\ volume_in = [op |-> "", A |-> <<>>, B |-> <<>>]
    /\ volume_out = [type |-> "EmptyVolume"]
    /\ options = [called |-> FALSE, given |-> <<>>, options |-> <<>>,
                  raised |-> ""]
    /\ continuous_segments = [a |-> <<>>, b |-> <<>>]
    /\ analysis_call = [op |-> "SingleTrajectoryAnalysis", state |-> "",
                        raised |-> "", n |-> 0]
    /\ cache = <<>>
    /\ _cached_all = FALSE
    /\ cache_size \in IF subsystem = "variable" THEN {-1, NumStored - 1}
                      ELSE {-1}
    /\ cache_call = [op |-> "VariableStore", part |-> None]
    /\ simulation = [positions |-> <<"x", "y">>, velocities |-> <<1, -2>>,
                     masses |-> <<12, 16>>]
    /\ _current_snapshot = 0
    /\ solute_indices \in IF subsystem = "openmm"
                          THEN {<<0>>, <<1>>, <<0, 1>>, <<1, 0>>, <<0, 0>>}
                          ELSE {<<0>>}
    /\ openmm_call = [op |-> "OpenMMEngine", raised |-> "",
                      step_masses |-> <<>>]
    /\ op_cache = [cache |-> <<>>, is_cached |-> {}]
    /\ op_call = [op |-> "OrderParameter", snapshots |-> <<>>,
                  single |-> FALSE, evaluated |-> <<>>, raised |-> "",
                  direct |-> {}, d |-> <<>>]
    /\ \E n \in IF subsystem = "network" THEN 1..MaxStates ELSE {1} :
          \E from_state \in
                [1..n -> IF subsystem = "network"
                         THEN {[shooting |-> [k \in 1..a |-> "shooting"],
                                pathreversal |->
                                    [k \in 1..b |-> "pathreversal"],
                                minus |-> [k \in 1..c |-> "minus"],
                                repex |-> [k \in 1..e |-> "repex"]] :
                                  a \in 0..MaxMovers, b \in 0..MaxMovers,
                                  c \in 0..1, e \in 0..MaxMovers}
                         ELSE {[shooting |-> <<>>, pathreversal |-> <<>>,
                                minus |-> <<>>, repex |-> <<>>]}] :
             network = [from_state |-> from_state, outer_ensembles |-> n,
                        built |-> FALSE,
                        move_scheme |-> [movers |-> <<>>,
                                         weights |-> <<>>]]
    /\ summary = [op |-> "", trajectory |-> <<>>, label_dict |-> <<>>,
                  raised |-> "", segment_labels |-> <<>>]

SpecChange == Init("change") /\ [][ChangeNext]_vars
SpecEngine == Init("engine") /\ [][EngineNext]_vars
SpecStore == Init("store") /\ [][StoreNext]_vars
SpecSave == Init("save") /\ [][SaveNext]_vars
SpecNamed == Init("named") /\ [][NamedNext]_vars
SpecJSON == Init("json") /\ [][JsonNext]_vars
SpecSnapshot == Init("snapshot") /\ [][SnapshotNext]_vars
SpecFeature == Init("feature") /\ [][FeatureNext]_vars
SpecVolume == Init("volume") /\ [][VolumeNext]_vars
SpecOptions == Init("options") /\ [][OptionsNext]_vars
SpecAnalysis == Init("analysis") /\ [][AnalysisNext]_vars
SpecVariable == Init("variable") /\ [][VariableNext]_vars
SpecOpenMM == Init("openmm") /\ [][OpenMMNext]_vars
SpecOrderParameter == Init("orderparameter") /\ [][OrderParameterNext]_vars
SpecNetwork == Init("network") /\ [][NetworkNext]_vars
SpecSummary == Init("summary") /\ [][SummaryNext]_vars

(***************************************************************************)
(* Claims about the PathMoveChange tree.                                   *)
(***************************************************************************)

\* C1: for every change tree c and SampleSet S, c.apply_to(S) is the same
\* SampleSet as S.apply_samples(c.samples).
C1_ApplyToMergesSamples ==
    phase = "applied" => sample_set = apply_samples(before, samples(change))

AllAccepted(subs) == \A i \in 1..Len(subs) : accepted(subs[i])

\* the length of the longest leading run of accepted sub-changes
AcceptedPrefix(subs) ==
    CHOOSE k \in 0..Len(subs) :
        /\ \A i \in 1..k : accepted(subs[i])
        /\ k = Len(subs) \/ ~accepted(subs[k + 1])

RECURSIVE ConcatSamples(_, _)
ConcatSamples(subs, k) ==
    IF k = 0 THEN <<>> ELSE ConcatSamples(subs, k - 1) \o samples(subs[k])

\* C2: a ConditionalSequentialMovePath is accepted iff every sub-change is
\* accepted, and its samples are the in-order concatenation of all
\* sub-changes' samples when all are accepted and empty otherwise; the
\* samples of a PartialAcceptanceSequentialMovePath are the concatenation of
\* the samples of the longest leading run of accepted sub-changes.
C2_ConditionalAndPartialSamples ==
    LET subs == change.subchanges
    IN  /\ change.kind = "ConditionalSequentialMovePath" =>
              /\ accepted(change) = AllAccepted(subs)
              /\ samples(change) = IF AllAccepted(subs)
                                   THEN ConcatSamples(subs, Len(subs))
                                   ELSE <<>>
        /\ change.kind = "PartialAcceptanceSequentialMovePath" =>
              samples(change) = ConcatSamples(subs, AcceptedPrefix(subs))

\* sub-changes [accepted, rejected, accepted] under a partial-acceptance
\* node: exactly the first sub-change's samples are kept
C2_Witness ==
    /\ change.kind = "PartialAcceptanceSequentialMovePath"
    /\ Len(change.subchanges) = 3
    /\ accepted(change.subchanges[1])
    /\ ~accepted(change.subchanges[2])
    /\ accepted(change.subchanges[3])
    /\ samples(change.subchanges[3]) # <<>>
    /\ samples(change) = samples(change.subchanges[1])
    /\ samples(change) # <<>>

\* the sub-list keeping, per replica, only the last sample written for it
RECURSIVE LastPerReplica(_)
LastPerReplica(s) ==
    IF s = <<>> THEN <<>>
    ELSE IF \E j \in 2..Len(s) : s[j].replica = s[1].replica
         THEN LastPerReplica(Tail(s))
         ELSE <<s[1]>> \o LastPerReplica(Tail(s))

\* C3: collapsed_samples keeps for each replica only the last sample that
\* c.samples writes for it (no replica twice), and applying c.closed to S
\* yields the same SampleSet as applying c to S.
C3_ClosedAppliesLikeChange ==
    change # NoChange =>
        /\ collapsed_samples(change) = LastPerReplica(samples(change))
        /\ \A i, j \in 1..Len(collapsed_samples(change)) :
              i # j => collapsed_samples(change)[i].replica
                          # collapsed_samples(change)[j].replica
        /\ phase = "applied" => apply_to(closed(change), before) = sample_set

(***************************************************************************)
(* Claims about the snapshot and trajectory stores.                        *)
(***************************************************************************)

\* the last operation saved the twin of a snapshot whose payload was written
SavedTwinOfSaved ==
    /\ last_save.op = "snapshots.save"
    /\ last_save.stored
    /\ last_save.reverse_stored

TwinIsAdjacent ==
    LET s == last_save.snapshot
    IN  /\ idx(s) >= 0
        /\ idx(reversed(s)) >= 0
        /\ idx(s) \div 2 = idx(reversed(s)) \div 2
        /\ idx(s) # idx(reversed(s))

\* C6: after any sequence of snapshot and trajectory save / mention
\* operations, saving a Trajectory that is already stored, or the reverse of
\* a stored one, adds no row to the trajectory table, the snapshot table or
\* the payload table; saving the reversed twin of an already saved snapshot
\* adds no row either and the twin has the index adjacent to the original's.
C6_SaveStoredOrReverseAddsNoRow ==
    /\ (/\ last_save.op = "trajectories.save"
        /\ last_save.stored \/ last_save.reverse_stored)
            => last_save.added = <<0, 0, 0>>
    /\ SavedTwinOfSaved => last_save.added = <<0, 0, 0>> /\ TwinIsAdjacent

\* C6 (amended): saving a Trajectory object the trajectory table already
\* holds adds no row to any of the three tables; saving a Trajectory object
\* that is not stored itself but is the reverse of a stored trajectory adds
\* exactly one trajectory row and no snapshot row; saving the reversed twin
\* of an already saved snapshot adds no row and the twin has the index
\* adjacent to the original's.
C6_SaveStoredObjectAddsNoRow ==
    /\ (last_save.op = "trajectories.save" /\ last_save.stored)
            => last_save.added = <<0, 0, 0>>
    /\ (/\ last_save.op = "trajectories.save"
        /\ ~last_save.stored
        /\ last_save.reverse_stored)
            => last_save.added[1] = 1 /\ last_save.added[2] = 0
    /\ SavedTwinOfSaved => last_save.added = <<0, 0, 0>> /\ TwinIsAdjacent

\* the reverse of a trajectory that was only mentioned is saved: one more
\* trajectory row, no snapshot row, the missing payload rows
C6_Witness ==
    /\ last_save.op = "trajectories.save"
    /\ ~last_save.stored
    /\ last_save.reverse_stored
    /\ last_save.added[1] = 1
    /\ last_save.added[2] = 0
    /\ last_save.added[3] > 0

(***************************************************************************)
(* Claims about Storage.save.                                              *)
(***************************************************************************)

\* the registered type a class derives from
RegisteredBase(c) == CHOOSE ty \in RegisteredTypes : issubclass(c, ty)

\* C7: for an object whose type is a subclass of a registered store type
\* (with no store registered for its exact type), every call of
\* Storage.save(obj) saves it in the base type's store and returns the name
\* of that registered base type, on the first call and on every later one.
C7_SaveReturnsBaseTypeName ==
    (/\ save_obj[1] \notin RegisteredTypes
     /\ \E ty \in RegisteredTypes : issubclass(save_obj[1], ty))
        => /\ save_obj \in saved[RegisteredBase(save_obj[1])]
           /\ save_return = RegisteredBase(save_obj[1])

(***************************************************************************)
(* Claims about OPSNamed.                                                  *)
(***************************************************************************)

\* C10: once fix_name() has been called on a named object, the value of its
\* name property never changes under any later operation (assigning name,
\* calling named): every rename attempt raises an error and leaves the name
\* as it was.
C10_FixedNameNeverChanges ==
    (/\ name_call.op \in {"name.setter", "named"}
     /\ name_call.fixed_before)
        => /\ name_call.raised
           /\ name(name_call.obj) = name_call.name_before

(***************************************************************************)
(* Claims about ObjectJSON.                                                *)
(***************************************************************************)

\* C8: for every value composed of numbers, strings, lists, tuples, slices,
\* dicts (with string / int keys or with other keys) and registered storable
\* objects, build(simplify(v)) is value-equal to v: tuples come back as
\* tuples, every dict key and entry is preserved, every object comes back
\* with an equal to_dict().
C8_BuildSimplifyRoundTrip ==
    json_pc = "rebuilt" => json_out.val = json_in

\* a record naming a class that is not in class_list
NotCreatable(v) ==
    /\ v[1] = "dict"
    /\ Has(v, "_cls")
    /\ Has(v, "_dict")
    /\ Get(v, "_cls") \notin {<<"str", c>> : c \in class_list}

\* such a record anywhere in v
RECURSIVE HasNotCreatable(_)
HasNotCreatable(v) ==
    \/ NotCreatable(v)
    \/ v[1] = "dict" /\ \E p \in v[2] : HasNotCreatable(p[2])
    \/ v[1] \in {"list", "tuple"}
          /\ \E i \in 1..Len(v[2]) : HasNotCreatable(v[2][i])

\* such a record as v itself or nested in lists, the list of a _tuple
\* record, the pair list of a _dict record, the _dict of a _cls record or
\* the values of a plain dict, but not in the list of a _slice record
RECURSIVE HasNotCreatableOutsideSlice(_)
HasNotCreatableOutsideSlice(v) ==
    \/ NotCreatable(v)
    \/ /\ v[1] = "dict"
       /\ ~Has(v, "_slice")
       /\ \E p \in v[2] : HasNotCreatableOutsideSlice(p[2])
    \/ /\ v[1] = "list"
       /\ \E i \in 1..Len(v[2]) : HasNotCreatableOutsideSlice(v[2][i])

NoRunnerStopped ==
    \A runner \in gen_running, k \in 2..Len(trajectory) :
        CallRunner(runner, SubSeq(trajectory, 1, k))

\* C4: generate returns a trajectory that begins with the supplied
\* snapshot and never has more than n_frames_max frames (for any
\* n_frames_max >= 0); when no supplied predicate ever returns false it has
\* exactly n_frames_max frames.
C4_GenerateWithinFrameLimit ==
    pc = "returned" =>
        /\ trajectory[1] = gen_snapshot
        /\ Len(trajectory) <= n_frames_max
        /\ NoRunnerStopped => Len(trajectory) = n_frames_max

\* C5: after generate returns, stoppers() is exactly the set of stopping
\* conditions that returned false on the last generated frame: the supplied
\* predicates that signalled stop, and the maximum-length stopper whenever
\* the length limit ended the run.
C5_StoppersAreLastFalse ==
    pc = "returned" =>
        stoppers = {runner \in gen_running : ~CallRunner(runner, trajectory)}
                   \cup (IF ~can_append(max_length_stopper, trajectory)
                         THEN {max_length_stopper} ELSE {})

(***************************************************************************)
(* Claims about Configuration, Momentum and Snapshot.                      *)
(***************************************************************************)

\* C11: for any Snapshot s, s.reverse().reverse() has the coordinates,
\* velocities and energies s had, and s.reversed_copy() returns a Snapshot
\* whose velocities are -1 times s.velocities, which shares s's
\* Configuration and Momentum objects, and leaves s's reversed flag and the
\* stored velocities as they were.
C11_ReverseTwiceAndReversedCopy ==
    /\ [](\A i \in DOMAIN snapshot_objs :
            \A attr \in {"coordinates", "velocities", "potential_energy",
                         "kinetic_energy", "total_energy"} :
                LET s == snapshot_objs[i]
                    once == [s EXCEPT !.reversed = ~@]
                    twice == [once EXCEPT !.reversed = ~@]
                IN  getattr(configurations, momentums, twice, attr)
                        = getattr(configurations, momentums, s, attr))
    /\ [][snap_call'.op = "reversed_copy" =>
            LET s == snapshot_objs[snap_call'.self]
                copied == snapshot_objs'[Len(snapshot_objs')]
                v == getattr(configurations, momentums, s, "velocities")
                w == getattr(configurations', momentums', copied,
                             "velocities")
            IN  /\ snap_call'.raised = ""
                /\ Len(snapshot_objs') = Len(snapshot_objs) + 1
                /\ copied.configuration = s.configuration
                /\ copied.momentum = s.momentum
                /\ snapshot_objs'[snap_call'.self] = s
                /\ momentums' = momentums
                /\ (v.raised = "" /\ v.value # None) =>
                       /\ w.raised = ""
                       /\ w.value = [k \in DOMAIN v.value |->
                                        -1 * v.value[k]]]_vars

\* C12: on a Snapshot without a configuration (without a momentum), each of
\* coordinates, velocities, box_vectors, potential_energy, kinetic_energy,
\* n_atoms and total_energy returns None and does not raise.
C12_AccessorsReturnNoneWhenAbsent ==
    \A i \in DOMAIN snapshot_objs :
        LET s == snapshot_objs[i]
            absent(attr) == getattr(configurations, momentums, s, attr)
                                = [value |-> None, raised |-> ""]
        IN  /\ s.configuration = 0 =>
                   /\ absent("coordinates")
                   /\ absent("box_vectors")
                   /\ absent("potential_energy")
                   /\ absent("n_atoms")
            /\ s.momentum = 0 =>
                   absent("velocities") /\ absent("kinetic_energy")
            /\ (s.configuration = 0 \/ s.momentum = 0) =>
                   absent("total_energy")

\* C13: no constructor or copy / subset / reverse call changes a
\* Configuration that exists already, and no Configuration ever holds a
\* NaN coordinate: a construction given NaN coordinates raises and leaves
\* every Configuration as it was.
C13_ConfigurationsImmutableWithoutNaN ==
    [][/\ \A c \in DOMAIN configurations :
              configurations'[c] = configurations[c]
       /\ \A c \in DOMAIN configurations' :
              \A k \in DOMAIN configurations'[c].coordinates :
                  configurations'[c].coordinates[k] # "nan"]_vars

\* C14: for a feature-composed snapshot s, s.create_reversed() returns a
\* twin that holds the very lazy payload entries of s and refers back to s,
\* and the reversed twin of that twin is value-equal to s in every
\* attribute: unchanged attributes identical, minus attributes negated
\* twice, flip attributes inverted twice.
C14_CreateReversedTwiceIsOriginal ==
    [][feature_call'.op = "create_reversed" =>
          LET s == feature_objs[feature_call'.self]
              this == feature_objs'[Len(feature_objs')]
          IN  /\ feature_call'.raised = ""
              /\ Len(feature_objs') = Len(feature_objs) + 1
              /\ this._lazy = s._lazy
              /\ this._reversed = feature_call'.self
              /\ s._reversed # 0 =>
                     /\ this.attrs = feature_objs[s._reversed].attrs
                     /\ this._lazy = feature_objs[s._reversed]._lazy]_vars

(***************************************************************************)
(* Claims about volumes.                                                   *)
(***************************************************************************)

\* C15: for LambdaVolumes A and B on one collective variable, A|B, A&B, A-B
\* and A^B are an EmptyVolume, a FullVolume, one LambdaVolume or an OrVolume
\* of two LambdaVolumes, and accept exactly the values of the collective
\* variable that the same boolean combination of A and B accepts.
C15_LambdaCombinationsAreExact ==
    volume_in.op \in {"or", "and", "sub", "xor"} =>
        /\ \/ volume_out.type \in {"EmptyVolume", "FullVolume",
                                   "LambdaVolume"}
           \/ /\ volume_out.type = "OrVolume"
              /\ volume_out.volume1.type = "LambdaVolume"
              /\ volume_out.volume2.type = "LambdaVolume"
        /\ \A l \in -1..(MaxLambda + 1) :
               LET a == __call__(volume_in.A, l)
                   b == __call__(volume_in.B, l)
               IN  __call__(volume_out, l) =
                       CASE volume_in.op = "or" -> a \/ b
                         [] volume_in.op = "and" -> a /\ b
                         [] volume_in.op = "sub" -> a /\ ~b
                         [] volume_in.op = "xor" -> a # b

C17_IncompatibleUnitFails ==
    (options.called /\ options.raised = "") =>
        \A variable \in DOMAIN _default_options :
            _default_options[variable].type = "Quantity" =>
                options.options[variable].unit =
                    _default_options[variable].unit

(***************************************************************************)
(* C18: analyze_continuous_time(trajectory, state) appends, from left to   *)
(* right, exactly the maximal runs of consecutive frames inside the state: *)
(* the appended segments hold only frames of the state, hold every frame   *)
(* of the state, are disjoint and no two of them are adjacent; what the    *)
(* analysis held before stays.  The trajectory of the test fixture gives   *)
(* the run lengths 3,1,1,1,1,1,1 for stateA and 1,1,1,5 for stateB.        *)
(***************************************************************************)
C18_AppendsMaximalRuns ==
    [][\A state \in DOMAIN continuous_segments :
        \A traj \in
              UNION {[1..n -> {"a", "b", "x"}] : n \in 0..MaxTrajLen}
                  \cup {traj_str} :
           (analysis_call'.state = state
                /\ analyze_continuous_time(traj, state)) =>
              LET old == continuous_segments[state]
                  all == continuous_segments'[state]
                  new == SubSeq(all, Len(old) + 1, Len(all))
              IN  /\ Len(all) >= Len(old)
                  /\ SubSeq(all, 1, Len(old)) = old
                  /\ \A other \in DOMAIN continuous_segments \ {state} :
                        continuous_segments'[other] =
                            continuous_segments[other]
                  /\ \A i \in 1..Len(new) :
                        /\ 0 <= new[i].start
                        /\ new[i].start < new[i].stop
                        /\ new[i].stop <= Len(traj)
                        /\ \A f \in (new[i].start + 1)..new[i].stop :
                              traj[f] = state
                  /\ \A i \in 1..(Len(new) - 1) :
                        new[i].stop < new[i + 1].start
                  /\ \A f \in 1..Len(traj) :
                        traj[f] = state =>
                            \E i \in 1..Len(new) :
                                new[i].start < f /\ f <= new[i].stop
                  /\ (traj = traj_str /\ old = <<>>) =>
                        continuous_frames(state)' =
                            IF state = "a" THEN <<3, 1, 1, 1, 1, 1, 1>>
                            ELSE <<1, 1, 1, 5>>]_vars

\* a second analysis has appended the runs of the fixture to earlier ones
C18_Witness ==
    /\ analysis_call.op = "analyze_continuous_time"
    /\ analysis_call.raised = ""
    /\ analysis_call.state = "a"
    /\ Len(continuous_segments["a"]) = 8
    /\ continuous_frames("a") = <<2, 3, 1, 1, 1, 1, 1, 1>>

(***************************************************************************)
(* C19: traverse_dfs visits every node of the change tree exactly once,    *)
(* each node after all nodes of its sub-changes; traverse_bfs visits every *)
(* node exactly once, each node before the nodes of its sub-changes; the   *)
(* leveled variants return the same node sequence as their unleveled       *)
(* counterpart, each result paired with the depth of its node.             *)
(***************************************************************************)
RECURSIVE NodesOf(_, _)
NodesOf(c, node) ==
    {node} \cup UNION {NodesOf(c.subchanges[i], Append(node, i)) :
                          i \in 1..Len(c.subchanges)}

IsBelow(n, m) == Len(n) > Len(m) /\ SubSeq(n, 1, Len(m)) = m

VisitsOnce(seq) ==
    /\ Len(seq) = Cardinality(NodesOf(change, <<>>))
    /\ {seq[i] : i \in 1..Len(seq)} = NodesOf(change, <<>>)

C19_TraversalOrders ==
    LET dfs == traverse_dfs(change)
        bfs == traverse_bfs(change)
    IN  /\ VisitsOnce(dfs)
        /\ \A i, j \in 1..Len(dfs) : IsBelow(dfs[j], dfs[i]) => j < i
        /\ VisitsOnce(bfs)
        /\ \A i, j \in 1..Len(bfs) : IsBelow(bfs[j], bfs[i]) => i < j
        /\ traverse_dfs_level(change, 0, <<>>) =
               [i \in 1..Len(dfs) |-> <<Len(dfs[i]), dfs[i]>>]
        /\ traverse_bfs_level(change, 0, <<>>) =
               [i \in 1..Len(bfs) |-> <<Len(bfs[i]), bfs[i]>>]

(***************************************************************************)
(* C20: for any sub-change c, the samples of FilterSamplesPathMoveChange(  *)
(* c, [-1], False) are computed (the evaluation terminates) and equal the  *)
(* samples of KeepLastSamplePathMoveChange(c): the list holding only the   *)
(* last sample of c.samples, the empty list when c.samples is empty.  The  *)
(* samples of a filter node are the samples of c at the selected positions.*)
(***************************************************************************)
C20_FilterLastIsKeepLast ==
    LET s == samples(change)
        keep == samples(KeepLastSamplePathMoveChange(change))
        filter(sel) == FilterSamples_get_samples(
                           FilterSamplesPathMoveChange(change, sel, FALSE), 0)
    IN  change # NoChange =>
            /\ filter(<<-1>>).raised = ""
            /\ filter(<<-1>>).samples = keep
            /\ keep = IF s = <<>> THEN <<>> ELSE <<s[Len(s)]>>
            /\ \A sel \in {<<>>, <<0>>, <<-1>>, <<0, -1>>} :
                  s # <<>> =>
                      /\ filter(sel).raised = ""
                      /\ filter(sel).samples =
                             [i \in 1..Len(sel) |->
                                 s[(sel[i] % Len(s)) + 1]]

(***************************************************************************)
(* C21: for a change c of any node type, a list of positions sel within    *)
(* range and either value of use_all_samples, c.reduced(sel,               *)
(* use_all_samples) does not fail and returns a collapsed change whose     *)
(* samples hold every sample of c.collapsed_samples and the sample at each *)
(* selected position, negative positions counted from the end.             *)
(***************************************************************************)
C21_ReducedKeepsCollapsedAndSelected ==
    \A c \in {change, KeepLastSamplePathMoveChange(change),
              PathSimulatorPathMoveChange(change)} :
      \A use_all_samples \in BOOLEAN :
        \A sel \in {<<>>, <<0>>, <<-1>>, <<1, -2>>} :
          LET from == IF use_all_samples THEN all_samples(c) ELSE samples(c)
              r == reduced(c, sel, use_all_samples)
              kept == {r.obj._local_samples[k] :
                          k \in 1..Len(r.obj._local_samples)}
          IN  (change # NoChange
                 /\ \A i \in 1..Len(sel) :
                       -Len(from) <= sel[i] /\ sel[i] < Len(from)) =>
                  /\ r.raised = ""
                  /\ r.obj.kind = "CollapsedMovePath"
                  /\ \A k \in 1..Len(collapsed_samples(c)) :
                        collapsed_samples(c)[k] \in kept
                  /\ \A i \in 1..Len(sel) :
                        from[(sel[i] % Len(from)) + 1] \in kept

(***************************************************************************)
(* C22: for every node type of the change tree, the wrappers around one    *)
(* sub-change included, all_samples holds every sample generated anywhere  *)
(* below the node, accepted or rejected; every element of the node's       *)
(* samples is an element of its all_samples.                               *)
(***************************************************************************)
RECURSIVE GeneratedBelow(_)
GeneratedBelow(c) ==
    {c._local_samples[k] : k \in 1..Len(c._local_samples)}
        \cup UNION {GeneratedBelow(c.subchanges[i]) :
                       i \in 1..Len(c.subchanges)}

C22_AllSamplesHoldsEverySample ==
    \A c \in {change, KeepLastSamplePathMoveChange(change),
              PathSimulatorPathMoveChange(change),
              FilterSamplesPathMoveChange(change, <<-1>>, FALSE)} :
        LET all == {all_samples(c)[k] : k \in 1..Len(all_samples(c))}
        IN  /\ GeneratedBelow(c) \subseteq all
            /\ c.kind # "FilterSamplesPathMoveChange" =>
                  \A k \in 1..Len(samples(c)) : samples(c)[k] \in all

(***************************************************************************)
(* C23: every generate call rebuilds the per-predicate stop record: after  *)
(* a call made with the predicate list R the running dictionary has        *)
(* entries only for predicates in R, and stoppers() reports no predicate   *)
(* that was passed only to an earlier generate call.                       *)
(***************************************************************************)
C23_RunningRebuiltByGenerate ==
    pc = "returned" =>
        /\ DOMAIN running \subseteq gen_running
        /\ stoppers \subseteq gen_running

(***************************************************************************)
(* C24: after cache_all() is called without a part argument every stored   *)
(* index, up to the capacity of the cache, has its object in the cache,    *)
(* whatever cache_all(part=...) calls were made before.                    *)
(***************************************************************************)
C24_CacheAllCachesEveryIndex ==
    (cache_call.op = "cache_all" /\ cache_call.part = None) =>
        \A index \in 0..(NumStored - 1) :
            (cache_size < 0 \/ index < cache_size) => index \in DOMAIN cache

(***************************************************************************)
(* C25: for any list of solute atom indices, equilibrate(n) runs the n     *)
(* steps with the mass of every solute particle set to zero; when it       *)
(* returns the mass of every particle is its mass before the call and the  *)
(* cached current snapshot has been invalidated.                           *)
(***************************************************************************)
C25_EquilibrateRestoresMasses ==
    [][openmm_call'.op = "equilibrate" =>
          /\ openmm_call'.raised = ""
          /\ \A k \in 1..Len(solute_indices) :
                openmm_call'.step_masses[solute_indices[k] + 1] = 0
          /\ simulation'.masses = simulation.masses
          /\ _current_snapshot' = 0]_vars

(***************************************************************************)
(* C29: whenever the engine holds a cached current snapshot, the positions *)
(* and the velocities of the simulation context are the coordinates and    *)
(* the reversal-adjusted velocities of that snapshot.                      *)
(***************************************************************************)
C29_ContextMatchesCachedSnapshot ==
    _current_snapshot # 0 =>
        LET s == snapshot_objs[_current_snapshot]
        IN  /\ s.configuration # 0 =>
                  simulation.positions =
                      getattr(configurations, momentums, s,
                              "coordinates").value
            /\ s.momentum # 0 =>
                  simulation.velocities =
                      getattr(configurations, momentums, s,
                              "velocities").value

(***************************************************************************)
(* C26: with caching on, a snapshot without a persistent index (index 0)   *)
(* is evaluated directly on each request; index 0 is never handed to the   *)
(* evaluation function of the cache and never enters is_cached.  The value *)
(* of a positive index is computed by the evaluation function once and     *)
(* afterwards served from the cache unchanged.                             *)
(***************************************************************************)
C26_IndexZeroNeverCached ==
    [][op_call'.op = "_assign" =>
          LET snaps == op_call'.snapshots
              handed == {op_call'.evaluated[k] :
                            k \in 1..Len(op_call'.evaluated)}
          IN  /\ op_call'.raised = ""
              /\ 0 \notin handed
              /\ 0 \notin op_cache'.is_cached
              /\ \A k \in 1..Len(snaps) :
                    snaps[k].idx = 0 => k \in op_call'.direct
              /\ \A i \in op_cache.is_cached \ {0} :
                    /\ i \notin handed
                    /\ op_cache'.cache[i + 1] = op_cache.cache[i + 1]
              /\ \A k \in 1..Len(snaps) :
                    (snaps[k].idx > 0 /\ ~op_call'.single) =>
                        op_call'.d[k] = <<10 * snaps[k].idx>>]_vars

(***************************************************************************)
(* C27: build_movers gives the five top-level choosers (shooting, replica  *)
(* exchange, path reversal, minus, multi-state-outer) the weights          *)
(* [n_shooting, n_repex / 2, n_reversal / 2, 0.2 / n_shooting, n_states],  *)
(* the two halves being the exact half of the mover count, odd or even.    *)
(***************************************************************************)
C27_ChooserWeights ==
    network.built =>
        LET w == network.move_scheme.weights
            n_shooting == Len(network.move_scheme.movers[1])
            n_repex == Len(network.move_scheme.movers[2])
            n_reversal == Len(network.move_scheme.movers[3])
        IN  /\ w[1][1] = n_shooting * w[1][2]
            /\ 2 * w[2][1] = n_repex * w[2][2]
            /\ 2 * w[3][1] = n_reversal * w[3][2]
            /\ 10 * n_shooting * w[4][1] = 2 * w[4][2]
            /\ w[5][1] = Len(network.from_state) * w[5][2]

(***************************************************************************)
(* C28: summarize_trajectory(trajectory, label_dict) returns, in           *)
(* trajectory order, one (label, number_of_frames) pair for each maximal   *)
(* run of consecutive frames mapped to the same label (None for a frame in *)
(* none of the volumes), so the counts sum to the length of the            *)
(* trajectory; it raises an error when some frame lies in more than one of *)
(* the volumes.                                                            *)
(***************************************************************************)
C28_SummarizeMaximalRuns ==
    summary.op = "summarize_trajectory" =>
        LET traj == summary.trajectory
            label_dict == summary.label_dict
            seg == summary.segment_labels
            In(k) == {i \in 1..Len(label_dict) :
                         traj[k] \in label_dict[i].volume}
            LabelOf(k) == IF In(k) = {} THEN None
                          ELSE label_dict[CHOOSE i \in In(k) : TRUE].key
            RECURSIVE Sum(_)
            Sum(j) == IF j = 0 THEN 0 ELSE seg[j][2] + Sum(j - 1)
        IN  IF \E k \in 1..Len(traj) : Cardinality(In(k)) > 1
            THEN summary.raised # ""
            ELSE /\ summary.raised = ""
                 /\ Sum(Len(seg)) = Len(traj)
                 /\ \A j \in 1..Len(seg) :
                       /\ seg[j][2] > 0
                       /\ \A k \in (Sum(j - 1) + 1)..Sum(j) :
                             LabelOf(k) = seg[j][1]
                       /\ j > 1 => seg[j][1] # seg[j - 1][1]


(***************************************************************************)
(* C30: for every LambdaVolumePeriodic V and every value x of the          *)
(* collective variable, (~V)(x) is the negation of V(x): no value, the two *)
(* boundary values included, is accepted by both V and ~V or by neither,   *)
(* and the complement of a volume covering the full period accepts         *)
(* nothing.                                                                *)
(***************************************************************************)
C30_PeriodicComplement ==
    volume_out.type = "LambdaVolumePeriodic" =>
        /\ __invert__(volume_out).type = "LambdaVolumePeriodic"
        /\ \A l \in -MaxLambda..(2 * MaxLambda) :
              __call__(__invert__(volume_out), l) = ~__call__(volume_out, l)

=============================================================================
